---- MODULE Spec2Model ----
(***************************************************************************)
(* A model of evmSniper: the GoPlus rate limiter (src/src/audit/           *)
(* RateLimiter.js), the retrying API wrapper and the two security checks   *)
(* (src/src/audit/index.js), the WebSocket controller's message handler    *)
(* (src/src/server.js and its draft in src/unnamed/part_002), the audit    *)
(* queue (src/src/audit/Audit.js), the Uniswap trading engines with their  *)
(* swap listeners and sells (src/unnamed/part_007,                         *)
(* src/src/trading/uniswapV2.js, uniswapV3.js), and the pair listeners     *)
(* with the classification of a new pair (src/src/listeners,               *)
(* src/src/utils/getAlchemySettings.js).                                   *)
(*                                                                         *)
(* Times are milliseconds, as in the code.  The event loop is single       *)
(* threaded: one action is one synchronous run of a handler or of a        *)
(* continuation, from one await to the next.                               *)
(***************************************************************************)
EXTENDS Integers, Sequences, FiniteSets, TLC

(***************************************************************************)
(* Bounds of the model                                                     *)
(***************************************************************************)
\* new RateLimiter(maxCalls, windowMs): the instance checked here
MaxCalls == 2
WindowMs == 1500
\* the clock advances in steps of MsPerTick up to MaxTime
MsPerTick == 500
MaxTime == 3000
\* requests handed to executeWithRateLimit
MaxReqs == 3
\* processQueue loops alive at once
MaxLoops == 2
\* direct recordCall() calls, handleRateLimit() calls, and the retryAfter seconds given
MaxDirect == 3
MaxThrottles == 2
MaxResets == 1
MaxRetryAfter == 2
\* how often `continue` (RateLimiter.js line 124) is followed without an await
SpinFuel == 3
\* inbound messages / buyToken calls, and the token addresses they name
MaxJobs == 2
MaxTokens == 2
\* prices are multiples of the smallest price, up to MaxPrice of them
MaxPrice == 2
\* candidates handed to Audit.addToQueue
MaxCands == 3
\* swap events delivered to listeners
MaxEvents == 2
\* distinct token addresses in creation events
MaxAddr == 2
\* creation events a pair listener receives
TaxRange == 12
MaxChains == 2
MaxLogs == 2

(***************************************************************************)
(* Program constants                                                       *)
(***************************************************************************)
InterCallDelay == 100
MsPerSecond == 1000
\* makeGoPlusCall: maxRetries, and the retryAfter used when the response has none
MaxRetries == 5
DefaultRetryAfter == 60
\* receipt polls of buyToken: part_007 and uniswapV2.js, uniswapV3.js
PollAttempts == 6
PollAttemptsV3 == 12
\* Audit.start: audits per pause
GoPlusLimit == 30
\* GoPlusAudit.securityCheck: MAX_TAX = 0.2, in tenths
MAX_TAX == 2

VARIABLES
  now,        \* Date.now()
  rl,         \* the RateLimiter object: calls, isThrottled, throttleEndTime, queue, processing
  loops,      \* the processQueue invocations that passed the guard, each at its await
  reqState,   \* the promise executeWithRateLimit returned for each request
  nextReq,    \* the next request to be submitted
  hist,       \* history of the limiter:
              \*   started      the requests whose apiCall was invoked, in order
              \*   recorded     the times of the recordCall()s since the last reset() that
              \*                are less than windowMs old
              \*   deadline     the latest deadline a handleRateLimit() since the last
              \*                reset() set, while it lies ahead (0 otherwise)
              \*   lastCan      what the latest canMakeCall() returned
              \*   outcomes     how the apiCall of each request ended: "ok" or "error"
              \*   blockOldest  the oldest in-window call when canMakeCall() last refused
              \*                for the window, while it is in the window (-1 otherwise)
  used,       \* how many direct recordCall(), handleRateLimit() and reset() calls were made
  ctl,        \* which message handler the controller runs: "server" or "part_002"
  msg,        \* the handler invocation of each inbound message, at its await
  eng,        \* which trading engine is in use: "part_007", "uniswapV2", "uniswapV3"
  buy,        \* the buyToken invocations, each at its await
  positions,  \* the engine's positions map
  listeners,  \* the engine's listeners map
  subs,       \* the swap listeners registered with alchemy.ws.on and not removed
  cb,         \* the swap listeners' invocations, each at one of its awaits
  sold,       \* history: per token, the sell swaps sent since its position was stored
  audit,      \* the Audit object: auditQueue, goPlusCalls, and its paused interval callbacks
  cand,       \* the candidates handed to addToQueue
  known,      \* KNOWN_TOKENS, read from data/known_tokens.json when the module loads
  feed,       \* a pair listener: chainId, totalSent, what it sent to the server and
              \* what the server's handler did with it
  scan,       \* one GoPlus check: the response makeGoPlusCall returned and the verdict
  app         \* main() of src/src/index.js: where it is, the trading instances it
              \* created, the pair listeners it activated, the trades it resolved

limiterVars == <<now, rl, loops, reqState, nextReq, hist, used>>
serverVars == <<ctl, msg>>
tradeVars == <<eng, buy, positions, listeners, subs, cb, sold>>
auditVars == <<audit, cand>>
feedVars == <<known, feed>>

vars == <<limiterVars, serverVars, tradeVars, auditVars, feedVars, scan, app>>

\* the parts of the program a specification leaves out stay as they are here
IdleServer == ctl = "server" /\ msg = <<>>
IdleTrade ==
  /\ eng = "part_007" /\ buy = <<>> /\ positions = <<>> /\ listeners = <<>>
  /\ subs = {} /\ cb = <<>> /\ sold = <<>>
IdleAudit == audit = <<>> /\ cand = <<>>
IdleFeed == known = {} /\ feed = <<>>
IdleScan == scan = <<>>
IdleApp == app = <<>>

----------------------------------------------------------------------------
(***************************************************************************)
(* RateLimiter.js                                                          *)
(***************************************************************************)
Max(a, b) == IF a >= b THEN a ELSE b

SeqMin(s) == CHOOSE x \in {s[i] : i \in 1..Len(s)} : \A j \in 1..Len(s) : x <= s[j]

\* calls.filter(callTime => now - callTime < windowMs)
InWindow(s, t) == SelectSeq(s, LAMBDA c : t - c < WindowMs)

RateLimiterNew ==
  [calls |-> <<>>, isThrottled |-> FALSE, throttleEndTime |-> 0,
   queue |-> <<>>, processing |-> FALSE]

\* canMakeCall() admitting a call when the window already holds maxCalls
CanMakeCallValueOffByOne(r, t) ==
  IF r.isThrottled /\ t < r.throttleEndTime
    THEN FALSE
    ELSE Len(InWindow(r.calls, t)) <= MaxCalls

\* canMakeCall() looking at the window only, not at the throttle
CanMakeCallValueWindowOnly(r, t) == Len(InWindow(r.calls, t)) < MaxCalls

\* canMakeCall(): the value it returns
CanMakeCallValue(r, t) ==
  IF r.isThrottled /\ t < r.throttleEndTime
    THEN FALSE
    ELSE Len(InWindow(r.calls, t)) < MaxCalls

\* canMakeCall(): the object after the call (throttle cleared, calls pruned)
AfterCanMakeCall(r, t) ==
  IF r.isThrottled /\ t < r.throttleEndTime
    THEN r
    ELSE [r EXCEPT !.isThrottled = FALSE,
                   !.throttleEndTime = IF r.isThrottled THEN 0 ELSE @,
                   !.calls = InWindow(r.calls, t)]

\* recordCall() that does not store the time of the call
AfterRecordCallDropped(r, t) == r

\* recordCall()
AfterRecordCall(r, t) == [r EXCEPT !.calls = Append(@, t)]

\* handleRateLimit(retryAfter)
AfterHandleRateLimit(r, t, retryAfter) ==
  [r EXCEPT !.isThrottled = TRUE, !.throttleEndTime = t + retryAfter * MsPerSecond]

\* getWaitTime()
GetWaitTime(r, t) ==
  IF r.isThrottled
    THEN Max(0, r.throttleEndTime - t)
    ELSE IF Len(r.calls) >= MaxCalls
           THEN Max(0, WindowMs - (t - SeqMin(r.calls)))
           ELSE 0

\* reset()
AfterReset(r) == RateLimiterNew

----------------------------------------------------------------------------
(***************************************************************************)
(* processQueue(): a loop is at one of its awaits                          *)
(*   "wait"   line 119, sleeping for the wait time it computed             *)
(*   "call"   line 131, awaiting apiCall(...args) of request req           *)
(*   "delay"  line 138, the 100 ms pause after a call                      *)
(* "spin" is the loop turning without an await, "none" a free slot.        *)
(***************************************************************************)
NoLoop == [pc |-> "none", wake |-> 0, req |-> 0]

Requests == 1..MaxReqs
LoopIds == 1..MaxLoops

RECURSIVE WhileHead(_, _, _)
RECURSIVE AfterWait(_, _, _)

\* lines 114-120: the while condition, getWaitTime(), the sleep
WhileHead(r, t, fuel) ==
  IF Len(r.queue) = 0
    THEN [rl |-> [r EXCEPT !.processing = FALSE], lp |-> NoLoop, start |-> 0]
    ELSE LET w == GetWaitTime(r, t) IN
         IF w > 0
           THEN [rl |-> r, lp |-> [pc |-> "wait", wake |-> t + w, req |-> 0], start |-> 0]
           ELSE AfterWait(r, t, fuel)

\* lines 122-131: the admission re-check, shift(), recordCall(), apiCall(...args)
AfterWait(r, t, fuel) ==
  LET r1 == AfterCanMakeCall(r, t) IN
  IF ~CanMakeCallValue(r, t)
    THEN IF fuel = 0
           THEN [rl |-> r1, lp |-> [pc |-> "spin", wake |-> 0, req |-> 0], start |-> 0]
           ELSE WhileHead(r1, t, fuel - 1)
    ELSE IF Len(r1.queue) = 0
           \* queue.shift() is undefined: the destructuring throws a TypeError and
           \* the loop ends without touching `processing`
           THEN [rl |-> r1, lp |-> NoLoop, start |-> 0]
           ELSE [rl |-> AfterRecordCall([r1 EXCEPT !.queue = Tail(@)], t),
                 lp |-> [pc |-> "call", wake |-> 0, req |-> Head(r1.queue)],
                 start |-> Head(r1.queue)]

FreeLoops == {l \in LoopIds : loops[l].pc = "none"}
LiveLoops == {l \in LoopIds : loops[l].pc # "none"}
InFlight == {l \in LoopIds : loops[l].pc = "call"}

\* the history after a synchronous run of a loop that ended in `res`
NoteRun(h, res) ==
  IF res.start = 0 THEN h
  ELSE [h EXCEPT !.started = Append(@, res.start), !.recorded = Append(@, now)]

\* the promises after a synchronous run of a loop that ended in `res`
Started(rs, res) == IF res.start = 0 THEN rs ELSE [rs EXCEPT ![res.start] = "running"]

InitLimiter ==
  /\ now = 0
  /\ rl = RateLimiterNew
  /\ loops = [l \in LoopIds |-> NoLoop]
  /\ reqState = [q \in Requests |-> "none"]
  /\ nextReq = 1
  /\ hist = [started |-> <<>>, recorded |-> <<>>, deadline |-> 0, lastCan |-> "none",
             blockOldest |-> -1, outcomes |-> [q \in Requests |-> "none"]]
  /\ used = [direct |-> 0, throttles |-> 0, resets |-> 0]

\* executeWithRateLimit(apiCall, ...args), lines 92-102, and the processQueue()
\* it starts when no loop is marked as processing
Submit ==
  /\ nextReq <= MaxReqs
  /\ LET q == nextReq
         r0 == [rl EXCEPT !.queue = Append(@, q)]
     IN /\ nextReq' = q + 1
        /\ IF r0.processing
             THEN /\ rl' = r0
                  /\ reqState' = [reqState EXCEPT ![q] = "queued"]
                  /\ UNCHANGED <<loops, hist>>
             ELSE /\ FreeLoops # {}
                  /\ LET l == CHOOSE x \in FreeLoops : \A y \in FreeLoops : x <= y
                         res == WhileHead([r0 EXCEPT !.processing = TRUE], now, SpinFuel)
                     IN /\ rl' = res.rl
                        /\ loops' = [loops EXCEPT ![l] = res.lp]
                        /\ reqState' = Started([reqState EXCEPT ![q] = "queued"], res)
                        /\ hist' = NoteRun(hist, res)
  /\ UNCHANGED <<now, used>>
  /\ UNCHANGED <<serverVars, tradeVars, auditVars, feedVars, scan, app>>

\* line 119 resolves: the timer of the computed wait time fired
WakeLoop(l) ==
  /\ loops[l].pc = "wait"
  /\ now >= loops[l].wake
  /\ LET res == AfterWait(rl, now, SpinFuel)
     IN /\ rl' = res.rl
        /\ loops' = [loops EXCEPT ![l] = res.lp]
        /\ reqState' = Started(reqState, res)
        /\ hist' = NoteRun(hist, res)
  /\ UNCHANGED <<now, nextReq, used>>
  /\ UNCHANGED <<serverVars, tradeVars, auditVars, feedVars, scan, app>>
  /\ UNCHANGED <<serverVars, tradeVars, auditVars, feedVars, scan, app>>

\* a limiter that resolves the promise whatever the call did
SettleSwallowing(ok) == "resolved"

\* lines 129-135: resolve(result) when the awaited call returned, reject(error)
\* when it threw
Settle(ok) == IF ok THEN "resolved" ELSE "rejected"

\* line 131 settles: resolve(result) or reject(error), then the pause of line 138
CallDone(l, ok) ==
  /\ loops[l].pc = "call"
  /\ reqState' = [reqState EXCEPT ![loops[l].req] = Settle(ok)]
  /\ hist' = [hist EXCEPT !.outcomes[loops[l].req] = IF ok THEN "ok" ELSE "error"]
  /\ loops' = [loops EXCEPT ![l] = [pc |-> "delay", wake |-> now + InterCallDelay, req |-> 0]]
  /\ UNCHANGED <<now, rl, nextReq, used>>
  /\ UNCHANGED <<serverVars, tradeVars, auditVars, feedVars, scan, app>>

\* line 138 resolves: back to the while condition
DelayDone(l) ==
  /\ loops[l].pc = "delay"
  /\ now >= loops[l].wake
  /\ LET res == WhileHead(rl, now, SpinFuel)
     IN /\ rl' = res.rl
        /\ loops' = [loops EXCEPT ![l] = res.lp]
        /\ reqState' = Started(reqState, res)
        /\ hist' = NoteRun(hist, res)
  /\ UNCHANGED <<now, nextReq, used>>
  /\ UNCHANGED <<serverVars, tradeVars, auditVars, feedVars, scan, app>>
  /\ UNCHANGED <<serverVars, tradeVars, auditVars, feedVars, scan, app>>

\* handleRateLimit(retryAfter)
HandleRateLimit(n) ==
  /\ used.throttles < MaxThrottles
  /\ used' = [used EXCEPT !.throttles = @ + 1]
  /\ rl' = AfterHandleRateLimit(rl, now, n)
  /\ hist' = [hist EXCEPT !.deadline = Max(@, now + n * MsPerSecond)]
  /\ UNCHANGED <<now, loops, reqState, nextReq>>
  /\ UNCHANGED <<serverVars, tradeVars, auditVars, feedVars, scan, app>>

\* canMakeCall(), called from outside the loop (getStatus() does, line 160)
CanMakeCall ==
  /\ rl' = AfterCanMakeCall(rl, now)
  /\ hist' = [hist EXCEPT
       !.lastCan = IF CanMakeCallValue(rl, now) THEN "yes" ELSE "no",
       !.blockOldest =
          IF ~CanMakeCallValue(rl, now) /\ ~(rl.isThrottled /\ now < rl.throttleEndTime)
            THEN SeqMin(InWindow(rl.calls, now))
            ELSE @]
  /\ UNCHANGED <<now, loops, reqState, nextReq, used>>
  /\ UNCHANGED <<serverVars, tradeVars, auditVars, feedVars, scan, app>>

\* recordCall(), called from outside the loop
RecordCall ==
  /\ used.direct < MaxDirect
  /\ used' = [used EXCEPT !.direct = @ + 1]
  /\ rl' = AfterRecordCall(rl, now)
  /\ hist' = [hist EXCEPT !.recorded = Append(@, now)]
  /\ UNCHANGED <<now, loops, reqState, nextReq>>
  /\ UNCHANGED <<serverVars, tradeVars, auditVars, feedVars, scan, app>>

\* reset(): the object is cleared; loops at their awaits are not stopped
Reset ==
  /\ used.resets < MaxResets
  /\ used' = [used EXCEPT !.resets = @ + 1]
  /\ rl' = AfterReset(rl)
  /\ hist' = [hist EXCEPT !.recorded = <<>>, !.deadline = 0, !.lastCan = "none",
                          !.blockOldest = -1]
  /\ UNCHANGED <<now, loops, reqState, nextReq>>
  /\ UNCHANGED <<serverVars, tradeVars, auditVars, feedVars, scan, app>>

\* time passes
Tick ==
  /\ now + MsPerTick <= MaxTime
  /\ now' = now + MsPerTick
  /\ hist' = [hist EXCEPT
       !.recorded = InWindow(@, now'),
       !.deadline = IF now' < @ THEN @ ELSE 0,
       !.blockOldest = IF @ >= 0 /\ now' - @ < WindowMs THEN @ ELSE -1]
  /\ UNCHANGED <<rl, loops, reqState, nextReq, used>>
  /\ UNCHANGED <<serverVars, tradeVars, auditVars, feedVars, scan, app>>

LoopStep ==
  \E l \in LoopIds :
    \/ WakeLoop(l)
    \/ DelayDone(l)
    \/ \E ok \in BOOLEAN : CallDone(l, ok)

\* the limiter driven through executeWithRateLimit, with handleRateLimit() and
\* getStatus() called at any time
NextDrain ==
  \/ Submit
  \/ LoopStep
  \/ \E n \in 1..MaxRetryAfter : HandleRateLimit(n)
  \/ CanMakeCall
  \/ Tick

InitDrain == InitLimiter /\ IdleServer /\ IdleTrade /\ IdleAudit /\ IdleFeed /\ IdleScan /\ IdleApp

SpecDrain == InitDrain /\ [][NextDrain]_vars

\* the same, with reset() called at any time
NextLimiter ==
  \/ Submit
  \/ LoopStep
  \/ \E n \in 1..MaxRetryAfter : HandleRateLimit(n)
  \/ Reset
  \/ Tick

SpecLimiter == InitDrain /\ [][NextLimiter]_vars

\* the object alone: its synchronous methods called in any order at any time
NextApi ==
  \/ RecordCall
  \/ CanMakeCall
  \/ \E n \in 1..MaxRetryAfter : HandleRateLimit(n)
  \/ Reset
  \/ Tick

SpecApi == InitDrain /\ [][NextApi]_vars

----------------------------------------------------------------------------
(***************************************************************************)
(* audit/index.js: makeGoPlusCall, tokenSecurity, rugpullDetection         *)
(*                                                                         *)
(* A response of the GoPlus API is its code, the shape of its result and   *)
(* its retry_after (0 when it has none).                                   *)
(*   data "none"   no result                                               *)
(*        "empty"  a result without fields                                 *)
(*        "clean"  a result for the token with no flag raised              *)
(*        "risky"  a result for the token with some flag raised            *)
(***************************************************************************)
Codes == {"SUCCESS", "PENDING_SYNC", "RATE_LIMITED", "OTHER"}
Data == {"none", "empty", "clean", "risky"}

Responses ==
  [code : Codes \ {"RATE_LIMITED"}, data : Data, retry_after : {0}]
    \cup [code : {"RATE_LIMITED"}, data : Data, retry_after : 0..1]

\* what executeWithRateLimit settles with: a response, or an error
NoResponse == [code |-> "THROWN", data |-> "none", retry_after |-> 0]
Settled == Responses \cup {NoResponse}

\* makeGoPlusCall retrying after every error and every rate-limited response
MakeGoPlusCallUnbounded(retry, resp) ==
  IF resp.code \in {"THROWN", "RATE_LIMITED"}
    THEN [kind |-> "retry", retry |-> retry + 1]
    ELSE [kind |-> "return", retry |-> retry]

\* makeGoPlusCall, lines 17-57: what one turn of its loop does with what the call
\* settled with, retryCount being `retry`
\*   "return"  line 46      "throw"  line 51      "retry"  lines 40 and 55
MakeGoPlusCall(retry, resp) ==
  IF resp = NoResponse
    THEN IF retry = MaxRetries - 1
           THEN [kind |-> "throw", retry |-> retry]
           ELSE [kind |-> "retry", retry |-> retry + 1]
    ELSE IF resp.code = "RATE_LIMITED" /\ retry + 1 < MaxRetries
           THEN [kind |-> "retry", retry |-> retry + 1]
           ELSE [kind |-> "return",
                 retry |-> IF resp.code = "RATE_LIMITED" THEN retry + 1 ELSE retry]

\* line 27: response.retry_after || 60
RetryAfterOf(resp) == IF resp.retry_after = 0 THEN DefaultRetryAfter ELSE resp.retry_after

\* tokenSecurity that looks at the result only, not at the response code
TokenSecurityResultDataOnly(resp) == IF resp.data = "clean" THEN "pass" ELSE "fail"

\* tokenSecurity, lines 143-240, on the response makeGoPlusCall returned
TokenSecurityResult(resp) ==
  IF resp.code \notin {"SUCCESS", "PENDING_SYNC"} THEN "fail"
  ELSE IF resp.data \in {"none", "empty"} THEN "fail"
  ELSE IF resp.data = "risky" THEN "fail"
  ELSE "pass"

\* rugpullDetection, lines 75-121: no result makes line 92 throw (caught, line 122),
\* a result without fields raises no flag
RugpullResult(resp) ==
  IF resp.code \notin {"SUCCESS", "PENDING_SYNC"} THEN "fail"
  ELSE IF resp.data = "none" THEN "fail"
  ELSE IF resp.data = "risky" THEN "fail"
  ELSE "pass"

\* the catch blocks of lines 122 and 241: a makeGoPlusCall that threw is a failure
CheckResult(check, kind, resp) ==
  IF kind = "throw" THEN "fail"
  ELSE IF check = "sec" THEN TokenSecurityResult(resp)
  ELSE RugpullResult(resp)

----------------------------------------------------------------------------
(***************************************************************************)
(* The trading engines: UniswapV2 of src/unnamed/part_007, UniswapV2 of    *)
(* src/src/trading/uniswapV2.js, UniswapV3 of src/src/trading/uniswapV3.js *)
(*                                                                         *)
(* A buyToken invocation is at one of its awaits:                          *)
(*   "price"     getTargetAndStopLoss (part_007)                           *)
(*   "balance"   getETHBalance / getTokenBalance                           *)
(*   "approve"   wethContract.approve (uniswapV3.js)                       *)
(*   "quote"     getAmountsOut / quoteExactInputSingle                     *)
(*   "gas"       estimateGas                                               *)
(*   "gasPrice"  getGasPrice                                               *)
(*   "swap"      swapExactETHForTokens / exactInputSingle                  *)
(*   "confirm"   getTransactionReceipt, `polls` attempts made              *)
(*   "entry"     getPrice for the position (uniswapV2.js)                  *)
(* and it ended with result "success", "failed" (false or success: false   *)
(* returned) or "threw".                                                   *)
(***************************************************************************)
Jobs == 1..MaxJobs
Tokens == 1..MaxTokens
Engines == {"part_007", "uniswapV2", "uniswapV3"}

\* getPrice: 0 is what it returns on an error; prices are even so that half of a
\* price is a price
Prices == {2 * k : k \in 0..MaxPrice}

NoBuy == [pc |-> "none", token |-> 0, price |-> 0, polls |-> 0, result |-> "none"]
NoPosition == [entryPrice |-> 0, by |-> 0]
NoListener == [targetPrice |-> 0, stopLoss |-> 0, by |-> 0]

\* the swap events delivered, each to one registered listener
Events == 1..MaxEvents
Reasons == {"TARGET_HIT", "STOP_LOSS"}
NoCallback ==
  [pc |-> "none", token |-> 0, by |-> 0, targetPrice |-> 0, stopLoss |-> 0,
   price |-> 0, reason |-> "none", reasons |-> {}, swaps |-> 0, soldBefore |-> 0]

\* getTargetAndStopLoss: targetMultiplier 2, stopLossMultiplier 0.5
TargetOf(p) == p * 2
StopLossOf(p) == p \div 2

FirstStage(e) == IF e = "part_007" THEN "price" ELSE "balance"

\* the await that follows the await `pc` when it resolved
NextStage(e, pc) ==
  IF e = "uniswapV3"
    THEN CASE pc = "balance" -> "approve"
           [] pc = "approve" -> "quote"
           [] pc = "quote" -> "swap"
    ELSE CASE pc = "price" -> "balance"
           [] pc = "balance" -> "quote"
           [] pc = "quote" -> "gas"
           [] pc = "gas" -> "gasPrice"
           [] pc = "gasPrice" -> "swap"

\* the await after which the balance is compared with the cost
BalanceCheckAt(e) == IF e = "uniswapV3" THEN "balance" ELSE "gasPrice"

\* an error before the swap: part_007 has no try around it, the other two return
\* { success: false } from their catch
PreSwapFailure(e) == IF e = "part_007" THEN "threw" ELSE "failed"

PollLimit(e) == IF e = "uniswapV3" THEN PollAttemptsV3 ELSE PollAttempts

InitEngine ==
  /\ eng \in Engines
  /\ buy = [c \in Jobs |-> NoBuy]
  /\ positions = [t \in Tokens |-> NoPosition]
  /\ listeners = [t \in Tokens |-> NoListener]
  /\ subs = {}
  /\ cb = [k \in Events |-> NoCallback]
  /\ sold = [t \in Tokens |-> 0]

\* buyToken returned or threw: its locals are gone
Ended(b, res) == [b EXCEPT !.pc = "done", !.price = 0, !.polls = 0, !.result = res]

\* buyToken up to its first await
StartedBuy(tok) == [NoBuy EXCEPT !.pc = FirstStage(eng), !.token = tok]

\* part_007 line 95: getPrice resolved with p (0 after an error)
PriceRead(c, p) ==
  /\ buy[c].pc = "price"
  /\ buy' = [buy EXCEPT ![c].price = p, ![c].pc = NextStage(eng, "price")]
  /\ UNCHANGED <<eng, positions, listeners, subs, cb, sold>>
  /\ UNCHANGED <<limiterVars, serverVars, auditVars, feedVars, scan, app>>

\* one of the reads before the swap settled: it resolved (ok) or rejected, and where
\* the balance is compared with the cost it was enough or not
RpcStep(c, ok, enough) ==
  /\ buy[c].pc \in {"balance", "approve", "quote", "gas", "gasPrice"}
  /\ buy' = [buy EXCEPT ![c] =
       IF ok /\ (buy[c].pc = BalanceCheckAt(eng) => enough)
         THEN [@ EXCEPT !.pc = NextStage(eng, buy[c].pc)]
         ELSE Ended(@, PreSwapFailure(eng))]
  /\ UNCHANGED <<eng, positions, listeners, subs, cb, sold>>
  /\ UNCHANGED <<limiterVars, serverVars, auditVars, feedVars, scan, app>>

\* the swap transaction was sent, or sending it rejected
SwapSent(c, ok) ==
  /\ buy[c].pc = "swap"
  /\ buy' = [buy EXCEPT ![c] =
       IF ok THEN [@ EXCEPT !.pc = "confirm"]
       ELSE Ended(@, "failed")]
  /\ UNCHANGED <<eng, positions, listeners, subs, cb, sold>>
  /\ UNCHANGED <<limiterVars, serverVars, auditVars, feedVars, scan, app>>

\* what a receipt poll gives: a receipt of a mined transaction that succeeded or
\* reverted, no receipt yet, or an error
Receipts == {"mined", "reverted", "null", "throw"}

\* the test that ends the polling loop
Confirmed(e, r) == IF e = "uniswapV3" THEN r = "mined" ELSE r \in {"mined", "reverted"}

\* what alchemy.ws.on holds for a listener: the closure's tokenAddress, targetPrice
\* and stopLoss; `by` names the call that registered it
Subscription(tok, p, c) ==
  [token |-> tok, targetPrice |-> TargetOf(p), stopLoss |-> StopLossOf(p), by |-> c]

\* listeners.set(tokenAddress, { ..., targetPrice, stopLoss, ... })
ListenerInfo(p, c) == [targetPrice |-> TargetOf(p), stopLoss |-> StopLossOf(p), by |-> c]

\* positions.set(tokenAddress, ...)
WithPosition(ps, tok, p, c) == [ps EXCEPT ![tok] = [entryPrice |-> p, by |-> c]]

\* one getTransactionReceipt settled; when the loop ends with it, the rest of
\* buyToken up to its next await runs.  In part_007 that is positions.set (line 175)
\* and then startTargetListener (lines 284-341), whose alchemy.ws.on either
\* registers the listener (lok) or throws, and line 192.
ReceiptPoll(c, r, lok) ==
  /\ buy[c].pc = "confirm"
  /\ LET tok == buy[c].token
         n == buy[c].polls + 1
         ends == Confirmed(eng, r) \/ n = PollLimit(eng)
     IN
     IF eng = "uniswapV3" /\ r = "reverted"
       THEN /\ buy' = [buy EXCEPT ![c] = Ended(@, "failed")]
            /\ UNCHANGED <<positions, listeners, subs, sold>>
     ELSE IF ~ends
       THEN /\ buy' = [buy EXCEPT ![c].polls = n]
            /\ UNCHANGED <<positions, listeners, subs, sold>>
     ELSE IF eng = "uniswapV3"
       THEN /\ buy' = [buy EXCEPT ![c] = Ended(@, "success")]
            /\ UNCHANGED <<positions, listeners, subs, sold>>
     ELSE IF eng = "uniswapV2"
       THEN /\ buy' = [buy EXCEPT ![c].polls = 0, ![c].pc = "entry"]
            /\ UNCHANGED <<positions, listeners, subs, sold>>
     ELSE /\ positions' = WithPosition(positions, tok, buy[c].price, c)
          /\ sold' = [sold EXCEPT ![tok] = 0]
          /\ IF lok
               THEN /\ subs' = subs \cup {Subscription(tok, buy[c].price, c)}
                    /\ listeners' = [listeners EXCEPT ![tok] =
                                       ListenerInfo(buy[c].price, c)]
                    /\ buy' = [buy EXCEPT ![c] = Ended(@, "success")]
               ELSE /\ UNCHANGED <<subs, listeners>>
                    /\ buy' = [buy EXCEPT ![c] = Ended(@, "threw")]
  /\ UNCHANGED <<eng, cb>>
  /\ UNCHANGED <<limiterVars, serverVars, auditVars, feedVars, scan, app>>

\* uniswapV2.js lines 204-216: getPrice resolved with p, the position is stored
EntryPriceRead(c, p) ==
  /\ buy[c].pc = "entry"
  /\ positions' = WithPosition(positions, buy[c].token, p, c)
  /\ sold' = [sold EXCEPT ![buy[c].token] = 0]
  /\ buy' = [buy EXCEPT ![c] = Ended(@, "success")]
  /\ UNCHANGED <<eng, listeners, subs, cb>>
  /\ UNCHANGED <<limiterVars, serverVars, auditVars, feedVars, scan, app>>

\* buyToken called on the engine for token tok
BuyToken(c, tok) ==
  /\ buy[c].pc = "none"
  /\ \A k \in Jobs : k < c => buy[k].pc # "none"
  /\ buy' = [buy EXCEPT ![c] = StartedBuy(tok)]
  /\ UNCHANGED <<eng, positions, listeners, subs, cb, sold>>
  /\ UNCHANGED <<limiterVars, serverVars, auditVars, feedVars, scan, app>>

BuyStep ==
  \E c \in Jobs :
    \/ \E p \in Prices : PriceRead(c, p)
    \/ \E ok, enough \in BOOLEAN : RpcStep(c, ok, enough)
    \/ \E ok \in BOOLEAN : SwapSent(c, ok)
    \/ \E r \in Receipts, lok \in BOOLEAN : ReceiptPoll(c, r, lok)
    \/ \E p \in Prices : EntryPriceRead(c, p)

(***************************************************************************)
(* The swap listener and the sell: part_007 lines 293-319 (listener),      *)
(* 502-521 (executeSell), 210-274 (sellToken), 348-364 (stopTargetListener)*)
(* and their counterparts in uniswapV2.js and uniswapV3.js.                *)
(*                                                                         *)
(* An invocation of a listener is at one of its awaits:                    *)
(*   "price"  getPrice                                                     *)
(*   "prep"   the reads of executeSell and sellToken before the swap:      *)
(*            balanceOf, decimals, token info, approve, getAmountsOut;     *)
(*            none of them reads or writes the engine's maps               *)
(*   "swap"   swapExactTokensForETH                                        *)
(* `reasons` records the reasons it called executeSell with, `swaps` the   *)
(* sell swaps it sent and `soldBefore` the sell swaps that had been sent   *)
(* for the token's position when the event arrived.                        *)
(***************************************************************************)

\* the listener's test `if (!position) return`: uniswapV3.js has it commented out
ListenerChecksPosition(e) == e # "uniswapV3"

\* the target test with > in place of >=
TargetHitStrict(r) == r.targetPrice # 0 /\ r.price > r.targetPrice

\* the listener's two tests on the price it read
TargetHit(r) == r.targetPrice # 0 /\ r.price >= r.targetPrice
StopLossHit(r) == r.stopLoss # 0 /\ r.price <= r.stopLoss

\* the listener returned
Finished(r) == [r EXCEPT !.pc = "done", !.reason = "none"]

\* executeSell(tokenAddress, why) up to its first await: it returns at once when the
\* token has no position, and the listener goes on with `rest`
ExecuteSell(r, why, ps, rest) ==
  LET r1 == [r EXCEPT !.reasons = @ \cup {why}]
  IN IF ps[r.token].by = 0 THEN [rest EXCEPT !.reasons = r1.reasons]
     ELSE [r1 EXCEPT !.pc = "prep", !.reason = why]

\* the listener from its stop-loss test on
FromStopLoss(r, ps) ==
  IF StopLossHit(r) THEN ExecuteSell(r, "STOP_LOSS", ps, Finished(r)) ELSE Finished(r)

\* the listener from its target test on
FromTarget(r, ps) ==
  IF TargetHit(r) THEN ExecuteSell(r, "TARGET_HIT", ps, FromStopLoss(r, ps))
  ELSE FromStopLoss(r, ps)

\* the listener after the executeSell it awaited returned: a TARGET_HIT one is
\* followed by the stop-loss test
AfterExecuteSell(r, ps) ==
  IF r.reason = "TARGET_HIT" THEN FromStopLoss(r, ps) ELSE Finished(r)

\* stopTargetListener: alchemy.ws.off removes the listener the map holds (offOk) or
\* throws
StoppedSubs(sb, ls, tok, offOk) ==
  IF ls[tok].by # 0 /\ offOk
    THEN sb \ {x \in sb : x.token = tok /\ x.by = ls[tok].by}
    ELSE sb

StoppedListeners(ls, tok, offOk) ==
  IF ls[tok].by # 0 /\ offOk THEN [ls EXCEPT ![tok] = NoListener] ELSE ls

\* positions.delete(tokenAddress)
WithoutPosition(ps, tok) == [ps EXCEPT ![tok] = NoPosition]

\* a Swap log arrived and alchemy called the registered listener s: it runs up to
\* its getPrice
SwapEvent(k, s) ==
  /\ s \in subs
  /\ cb[k].pc = "none"
  /\ \A j \in Events : j < k => cb[j].pc # "none"
  /\ cb' = [cb EXCEPT ![k] =
       [NoCallback EXCEPT !.pc = "price", !.token = s.token, !.by = s.by,
                          !.targetPrice = s.targetPrice, !.stopLoss = s.stopLoss,
                          !.soldBefore = sold[s.token]]]
  /\ UNCHANGED <<eng, buy, positions, listeners, subs, sold>>
  /\ UNCHANGED <<limiterVars, serverVars, auditVars, feedVars, scan, app>>

\* the listener's getPrice resolved with p (0 after an error)
ListenerPrice(k, p) ==
  /\ cb[k].pc = "price"
  /\ LET r == [cb[k] EXCEPT !.price = p]
     IN cb' = [cb EXCEPT ![k] =
          IF ListenerChecksPosition(eng) /\ positions[r.token].by = 0
            THEN Finished(r)
            ELSE FromTarget(r, positions)]
  /\ UNCHANGED <<eng, buy, positions, listeners, subs, sold>>
  /\ UNCHANGED <<limiterVars, serverVars, auditVars, feedVars, scan, app>>

\* the reads before the sell swap resolved (ok), or one rejected or the balance was
\* zero.  part_007: sellToken throws and executeSell's catch returns.  uniswapV2.js
\* and uniswapV3.js: sellToken returns { success: false } and executeSell goes on
\* to stopTargetListener.
SellPrep(k, ok, offOk) ==
  /\ cb[k].pc = "prep"
  /\ LET r == cb[k]
         tok == r.token
     IN
     IF ok
       THEN /\ cb' = [cb EXCEPT ![k].pc = "swap"]
            /\ UNCHANGED <<subs, listeners>>
     ELSE IF eng = "part_007"
       THEN /\ cb' = [cb EXCEPT ![k] = AfterExecuteSell(r, positions)]
            /\ UNCHANGED <<subs, listeners>>
     ELSE /\ subs' = StoppedSubs(subs, listeners, tok, offOk)
          /\ listeners' = StoppedListeners(listeners, tok, offOk)
          /\ cb' = [cb EXCEPT ![k] = AfterExecuteSell(r, positions)]
  /\ UNCHANGED <<eng, buy, positions, sold>>
  /\ UNCHANGED <<limiterVars, serverVars, auditVars, feedVars, scan, app>>

\* the sell swap was sent (ok) or sending it rejected.  part_007 lines 245-273:
\* after a swap that was sent, stopTargetListener and positions.delete; after one
\* that was not, { success: false }.  uniswapV2.js lines 655-661: stopTargetListener
\* either way, and the position stays.
SellSwap(k, ok, offOk) ==
  /\ cb[k].pc = "swap"
  /\ LET r == IF ok THEN [cb[k] EXCEPT !.swaps = @ + 1] ELSE cb[k]
         tok == r.token
         stops == IF eng = "part_007" THEN ok ELSE TRUE
         ps == IF eng = "part_007" /\ ok THEN WithoutPosition(positions, tok)
               ELSE positions
     IN
     /\ sold' = IF ok THEN [sold EXCEPT ![tok] = @ + 1] ELSE sold
     /\ subs' = IF stops THEN StoppedSubs(subs, listeners, tok, offOk) ELSE subs
     /\ listeners' = IF stops THEN StoppedListeners(listeners, tok, offOk)
                     ELSE listeners
     /\ positions' = ps
     /\ cb' = [cb EXCEPT ![k] = AfterExecuteSell(r, ps)]
  /\ UNCHANGED <<eng, buy>>
  /\ UNCHANGED <<limiterVars, serverVars, auditVars, feedVars, scan, app>>

\* uniswapV2.js lines 395-458, uniswapV3.js lines 545-600: startTargetListener is
\* called by the engine's user, here after the buy c succeeded and with the
\* thresholds of price p; alchemy.ws.on registers the listener (lok) or throws
StartTargetListener(c, p, lok) ==
  /\ eng # "part_007"
  /\ buy[c].result = "success"
  /\ \A x \in subs : x.by # c
  /\ eng = "uniswapV2" => p = positions[buy[c].token].entryPrice
  /\ IF lok
       THEN /\ subs' = subs \cup {Subscription(buy[c].token, p, c)}
            /\ listeners' = [listeners EXCEPT ![buy[c].token] = ListenerInfo(p, c)]
       ELSE UNCHANGED <<subs, listeners>>
  /\ UNCHANGED <<eng, buy, positions, cb, sold>>
  /\ UNCHANGED <<limiterVars, serverVars, auditVars, feedVars, scan, app>>

SellStep ==
  \E k \in Events :
    \/ \E s \in subs : SwapEvent(k, s)
    \/ \E p \in Prices : ListenerPrice(k, p)
    \/ \E ok, offOk \in BOOLEAN : SellPrep(k, ok, offOk)
    \/ \E ok, offOk \in BOOLEAN : SellSwap(k, ok, offOk)

\* the engine alone: buyToken called for any token at any time, swap events
\* delivered at any time
NextTrade ==
  \/ \E c \in Jobs, tok \in Tokens : BuyToken(c, tok)
  \/ BuyStep
  \/ SellStep
  \/ \E c \in Jobs, p \in Prices, lok \in BOOLEAN : StartTargetListener(c, p, lok)

InitTrade == InitLimiter /\ IdleServer /\ InitEngine /\ IdleAudit /\ IdleFeed /\ IdleScan /\ IdleApp

SpecTrade == InitTrade /\ [][NextTrade]_vars


----------------------------------------------------------------------------
(***************************************************************************)
(* The WebSocket controller's message handler: src/src/server.js lines     *)
(* 96-119 with runAudit (223-258) and runTrade (263-304), and the draft of *)
(* it in src/unnamed/part_002 lines 75-162.                                *)
(*                                                                         *)
(* A handler invocation is at one of its awaits:                           *)
(*   "call"   makeGoPlusCall awaits executeWithRateLimit (index.js:20)     *)
(*   "sleep"  makeGoPlusCall awaits its retry timer (index.js:40, 55)      *)
(*   "trade"  runTrade awaits buyToken (server.js:286)                     *)
(* Its record keeps the check it is in, retryCount, the calls the check    *)
(* has enqueued, what tokenSecurity and rugpullDetection returned to it,   *)
(* the checks it invoked in order, the checks all of whose maxRetries      *)
(* calls threw or were rate limited, and how it ended.                     *)
(***************************************************************************)
Handlers == {"server", "part_002"}
MsgKinds == {"malformed", "empty", "token"}

NoMsg ==
  [pc |-> "none", token |-> 0, check |-> "none", retry |-> 0, attempts |-> 0,
   sec |-> "none", rug |-> "none", order |-> <<>>, exhausted |-> {}, out |-> "none",
   kind |-> "none"]

\* the check the handler invokes first
FirstCheck(h) == IF h = "server" THEN "sec" ELSE "rug"

\* runAudit that goes on to trade whatever rugpullDetection returned
RunAuditNextIgnoringRug(check, result) ==
  IF check = "sec" THEN (IF result = "pass" THEN "rug" ELSE "rejected") ELSE "trade"

\* server.js, runAudit (238-257) and the handler (112-115): what follows a check
\* that returned: the other check, the trade, or the end
RunAuditNext(check, result) ==
  IF result # "pass" THEN "rejected"
  ELSE IF check = "sec" THEN "rug" ELSE "trade"

\* part_002, lines 96-133: the same for the draft, which checks in the other order
\* and does not trade
DraftNext(check, result) ==
  IF result # "pass" THEN "rejected"
  ELSE IF check = "rug" THEN "sec" ELSE "audited"

AfterCheck(h, check, result) ==
  IF h = "server" THEN RunAuditNext(check, result) ELSE DraftNext(check, result)

InitServer ==
  /\ ctl \in Handlers
  /\ msg = [m \in Jobs |-> NoMsg]

\* a check is invoked: makeGoPlusCall enqueues its first call
BeginCheck(r, check) ==
  [r EXCEPT !.pc = "call", !.check = check, !.retry = 0, !.attempts = 1,
            !.order = Append(@, check)]

\* a deserializeData that returns a token whatever the text is
DeserializeDataUnchecked(kind) == "token"

\* deserializeData, lines 145-153: JSON.parse throws on text that is not JSON (the
\* error is rethrown), and gives null, false, 0 or "" for the text of one of those
DeserializeData(kind) ==
  IF kind = "malformed" THEN "threw" ELSE IF kind = "empty" THEN "falsy" ELSE "token"

\* ws.on('message'): deserializeData, the validity test, getStatus(), the first
\* check; what deserializeData throws is caught and logged (lines 116-118)
Receive(m, kind, tok) ==
  /\ msg[m].pc = "none"
  /\ \A k \in Jobs : k < m => msg[k].pc # "none"
  /\ IF DeserializeData(kind) = "threw"
       THEN /\ msg' = [msg EXCEPT ![m].pc = "done", ![m].out = "malformed",
                                  ![m].kind = kind]
            /\ rl' = rl
       ELSE IF DeserializeData(kind) = "falsy"
         THEN /\ msg' = [msg EXCEPT ![m].pc = "done", ![m].out = "invalid",
                                    ![m].kind = kind]
              /\ rl' = rl
         ELSE /\ msg' = [msg EXCEPT ![m] =
                           BeginCheck([NoMsg EXCEPT !.token = tok, !.kind = kind],
                                      FirstCheck(ctl))]
              /\ rl' = AfterCanMakeCall(rl, now)
  /\ UNCHANGED <<now, loops, reqState, nextReq, hist, used, ctl>>
  /\ UNCHANGED <<tradeVars, auditVars, feedVars, scan, app>>

\* the call makeGoPlusCall awaits settled with resp: the rest of makeGoPlusCall's
\* turn, and when it returned or threw, the check's verdict and the handler up to
\* its next await.  inst: getTradingInstance finds an engine for the token.
CallSettles(m, resp, inst) ==
  /\ msg[m].pc = "call"
  /\ LET r == msg[m]
         step == MakeGoPlusCall(r.retry, resp)
         limited == resp # NoResponse /\ resp.code = "RATE_LIMITED"
         rl1 == IF limited THEN AfterHandleRateLimit(rl, now, RetryAfterOf(resp)) ELSE rl
         result == CheckResult(r.check, step.kind, resp)
         next == AfterCheck(ctl, r.check, result)
         r1 == [r EXCEPT !.retry = step.retry,
                         !.sec = IF r.check = "sec" THEN result ELSE @,
                         !.rug = IF r.check = "rug" THEN result ELSE @,
                         !.exhausted =
                            IF (resp = NoResponse \/ limited) /\ r.attempts = MaxRetries
                              THEN @ \cup {r.check} ELSE @]
     IN
     /\ hist' = IF limited
                  THEN [hist EXCEPT !.deadline =
                          Max(@, now + RetryAfterOf(resp) * MsPerSecond)]
                  ELSE hist
     /\ IF step.kind = "retry"
          THEN /\ msg' = [msg EXCEPT ![m].retry = step.retry,
                            ![m].pc = IF limited /\ GetWaitTime(rl1, now) = 0
                                        THEN "call" ELSE "sleep",
                            ![m].attempts = IF limited /\ GetWaitTime(rl1, now) = 0
                                              THEN @ + 1 ELSE @]
               /\ rl' = rl1
               /\ UNCHANGED buy
          ELSE IF next \in {"sec", "rug"}
            THEN /\ msg' = [msg EXCEPT ![m] = BeginCheck(r1, next)]
                 /\ rl' = rl1
                 /\ UNCHANGED buy
          ELSE IF next = "trade" /\ inst
            THEN /\ msg' = [msg EXCEPT ![m] =
                              [r1 EXCEPT !.pc = "trade", !.check = "none", !.retry = 0,
                                         !.attempts = 0]]
                 /\ buy' = [buy EXCEPT ![m] = StartedBuy(r.token)]
                 /\ rl' = rl1
          ELSE /\ msg' = [msg EXCEPT ![m] =
                       [r1 EXCEPT !.pc = "done", !.check = "none", !.retry = 0,
                                  !.attempts = 0,
                                  !.out = IF next = "trade" THEN "noInstance" ELSE next]]
               /\ rl' = IF next = "audited" THEN AfterCanMakeCall(rl1, now) ELSE rl1
               /\ UNCHANGED buy
  /\ UNCHANGED <<now, loops, reqState, nextReq, used, ctl>>
  /\ UNCHANGED <<eng, positions, listeners, subs, cb, sold, auditVars, feedVars, scan, app>>

\* makeGoPlusCall's retry timer fired: the next turn of its loop enqueues a call
RetryWake(m) ==
  /\ msg[m].pc = "sleep"
  /\ msg' = [msg EXCEPT ![m].pc = "call", ![m].attempts = @ + 1]
  /\ UNCHANGED <<limiterVars, ctl, tradeVars, auditVars, feedVars, scan, app>>

\* buyToken settled: runTrade logs the result (or the error it caught)
TradeReturns(m) ==
  /\ msg[m].pc = "trade"
  /\ buy[m].result # "none"
  /\ msg' = [msg EXCEPT ![m].pc = "done",
                        ![m].out = IF buy[m].result = "success" THEN "bought"
                                   ELSE "buyFailed"]
  /\ UNCHANGED <<limiterVars, ctl, tradeVars, auditVars, feedVars, scan, app>>

Next ==
  \/ \E m \in Jobs, kind \in MsgKinds, tok \in Tokens : Receive(m, kind, tok)
  \/ \E m \in Jobs, resp \in Settled, inst \in BOOLEAN : CallSettles(m, resp, inst)
  \/ \E m \in Jobs : RetryWake(m)
  \/ \E m \in Jobs : TradeReturns(m)
  \/ BuyStep

\* the controller with its engine, fed any messages
Init == InitLimiter /\ InitServer /\ InitEngine /\ IdleAudit /\ IdleFeed /\ IdleScan /\ IdleApp

Spec == Init /\ [][Next]_vars


----------------------------------------------------------------------------
(***************************************************************************)
(* The audit queue: class Audit of src/src/audit/Audit.js, lines 8-119.    *)
(*                                                                         *)
(* audit.paused counts the interval callbacks that are at the one-minute   *)
(* wait of line 42.  A candidate is "queued", then "running" while         *)
(* runGoPlusAudit awaits GoPlusAudit.main() (line 87), then "pass", "fail" *)
(* or "error" (main() threw: line 111); removed and runs count how often   *)
(* it was taken out of the queue and run.                                  *)
(***************************************************************************)
Cands == 1..MaxCands

NoCand == [state |-> "none", token |-> 0, removed |-> 0, runs |-> 0]

InitAudit ==
  /\ audit \in [queue : {<<>>}, goPlusCalls : {0, GoPlusLimit - 1}, paused : {0},
                undefinedRuns : {0}, stopped : {FALSE}]
  /\ cand = [c \in Cands |-> NoCand]

\* addToQueue(data)
AddToQueue(c, tok) ==
  /\ cand[c].state = "none"
  /\ \A k \in Cands : k < c => cand[k].state # "none"
  /\ cand' = [cand EXCEPT ![c] = [NoCand EXCEPT !.state = "queued", !.token = tok]]
  /\ audit' = [audit EXCEPT !.queue = Append(@, c)]
  /\ UNCHANGED <<limiterVars, serverVars, tradeVars, feedVars, scan, app>>

\* lines 47-50 and runGoPlusAudit up to its await (lines 80-87): the first candidate
\* is shifted out of the queue and its audit is started, not awaited.  With an empty
\* queue shift() gives undefined and line 80 throws.
ShiftAndRun(a, cs) ==
  IF Len(a.queue) = 0
    THEN [audit |-> [a EXCEPT !.undefinedRuns = 1], cand |-> cs]
    ELSE LET c == Head(a.queue) IN
         [audit |-> [a EXCEPT !.queue = Tail(@), !.goPlusCalls = @ + 1],
          cand |-> [cs EXCEPT ![c].state = "running", ![c].removed = @ + 1,
                              ![c].runs = @ + 1]]

\* the callback of setInterval (lines 33-51) with a queue that is not empty; after
\* stop() the interval is cleared and calls it no more
IntervalTick ==
  /\ ~audit.stopped
  /\ Len(audit.queue) > 0
  /\ IF audit.goPlusCalls >= GoPlusLimit
       THEN /\ audit.paused < MaxCands
            /\ audit' = [audit EXCEPT !.paused = @ + 1]
            /\ UNCHANGED cand
       ELSE LET res == ShiftAndRun(audit, cand)
            IN audit' = res.audit /\ cand' = res.cand
  /\ UNCHANGED <<limiterVars, serverVars, tradeVars, feedVars, scan, app>>

\* the one-minute wait of line 42 is over: lines 43-50
PauseEnds ==
  /\ audit.paused > 0
  /\ LET res == ShiftAndRun([audit EXCEPT !.paused = @ - 1, !.goPlusCalls = 0], cand)
     IN audit' = res.audit /\ cand' = res.cand
  /\ UNCHANGED <<limiterVars, serverVars, tradeVars, feedVars, scan, app>>

\* stop(), lines 59-62: clearInterval; callbacks in their wait are not touched
Stop ==
  /\ ~audit.stopped
  /\ audit' = [audit EXCEPT !.stopped = TRUE]
  /\ UNCHANGED <<cand, limiterVars, serverVars, tradeVars, feedVars, scan, app>>

\* GoPlusAudit.main() settled: lines 93-117
MainSettles(c, outcome) ==
  /\ cand[c].state = "running"
  /\ cand' = [cand EXCEPT ![c].state = outcome]
  /\ UNCHANGED <<audit, limiterVars, serverVars, tradeVars, feedVars, scan, app>>

NextAudit ==
  \/ \E c \in Cands, tok \in Tokens : AddToQueue(c, tok)
  \/ IntervalTick
  \/ PauseEnds
  \/ Stop
  \/ \E c \in Cands, outcome \in {"pass", "fail", "error"} : MainSettles(c, outcome)

InitQueue == InitLimiter /\ IdleServer /\ IdleTrade /\ InitAudit /\ IdleFeed /\ IdleScan /\ IdleApp

SpecAudit == InitQueue /\ [][NextAudit]_vars


----------------------------------------------------------------------------
(***************************************************************************)
(* The pair listeners and the classification of a new pair:                *)
(* src/src/utils/getAlchemySettings.js lines 57-96 (isBaseToken,           *)
(* findNewToken), src/src/listeners/V2TokenPairListener.js lines 64-106    *)
(* and src/src/listeners/V3TokenPairListener.js lines 172-212              *)
(* (processEventLog).                                                      *)
(*                                                                         *)
(* A JavaScript value is a record [t, id, form]: an address is a string of *)
(* hex digits `id` written in lower case or with the capitals of its       *)
(* checksum.  An object is a function from its property names to values,   *)
(* and the text JSON.stringify makes of it is the set of its pairs of a    *)
(* path and a value.                                                       *)
(***************************************************************************)
Undefined == [t |-> "undefined", id |-> 0, form |-> ""]
False == [t |-> "boolean", id |-> 0, form |-> "false"]
True == [t |-> "boolean", id |-> 1, form |-> "true"]
Str(x) == [t |-> "string", id |-> 0, form |-> x]
Digits(n) == [t |-> "string", id |-> n, form |-> "digits"]

Forms == {"lower", "checksum"}
Address(i, f) == [t |-> "address", id |-> i, form |-> f]
Addresses == {Address(i, f) : i \in 1..MaxAddr, f \in Forms}

\* the pair or pool address of the creation event
PoolAddress == Address(0, "checksum")

\* !v
Falsy(v) == v = Undefined \/ v = False

\* String.prototype.toLowerCase on an address
ToLowerCase(a) == [a EXCEPT !.form = "lower"]

\* isBaseToken comparing the addresses as they are written
IsBaseTokenExact(a, kn) == \E k \in kn : a = k

\* isBaseToken: KNOWN_TOKENS.some(k => a.toLowerCase() === k.toLowerCase())
IsBaseToken(a, kn) == \E k \in kn : ToLowerCase(a) = ToLowerCase(k)

\* findNewToken(token0, token1)
FindNewToken(token0, token1, kn) ==
  LET is0 == IsBaseToken(token0, kn)
      is1 == IsBaseToken(token1, kn)
      count == (IF is0 THEN 1 ELSE 0) + (IF is1 THEN 1 ELSE 0)
      baseToken == IF is1 THEN token1 ELSE IF is0 THEN token0 ELSE Undefined
      newToken == IF is1 THEN token0 ELSE IF is0 THEN token1 ELSE Undefined
  IN IF count = 0 \/ count = 2
       THEN [newToken |-> False, baseToken |-> False]
       ELSE [newToken |-> newToken, baseToken |-> baseToken]

ListenerKinds == {"V2TokenPairListener", "V3TokenPairListener"}

\* the chain ids of getAlchemySettings: '1' and '8453'
ChainIds == {Digits(1), Digits(8453)}

\* the data object processEventLog builds; findNewToken returns no newTokenIs0, and
\* fee.toString() is a string of digits
DataOf(kind, chainId, r) ==
  IF kind = "V2TokenPairListener"
    THEN [chainId |-> chainId, newTokenAddress |-> r.newToken,
          baseTokenAddress |-> r.baseToken, pairAddress |-> PoolAddress, v3 |-> False]
    ELSE [chainId |-> chainId, newTokenAddress |-> r.newToken,
          baseTokenAddress |-> r.baseToken, pairAddress |-> PoolAddress,
          newTokenIs0 |-> Undefined, v3 |-> True, fee |-> Digits(3000)]

\* JSON.stringify of an object of plain values, placed at `pre` in the text: a
\* property whose value is undefined is left out
Stringify(o, pre) ==
  {[path |-> pre \o <<f>>, value |-> o[f]] : f \in {g \in DOMAIN o : o[g] # Undefined}}

\* the text the listener sends: V2TokenPairListener.js line 102 wraps the data in
\* { action: 'audit', data }, V3TokenPairListener.js line 208 sends the data itself
MessageOf(kind, data) ==
  IF kind = "V2TokenPairListener"
    THEN {[path |-> <<"action">>, value |-> Str("audit")]} \cup Stringify(data, <<"data">>)
    ELSE Stringify(data, <<>>)

\* JSON.parse(text) read at a property path
Field(text, path) ==
  IF \E e \in text : e.path = path
    THEN (CHOOSE e \in text : e.path = path).value
    ELSE Undefined

\* server.js lines 236 and 245: the arguments runAudit gives tokenSecurity and
\* rugpullDetection
AuditArgs(token) ==
  [chainId |-> Field(token, <<"chainId">>),
   address |-> Field(token, <<"newTokenAddress">>)]

\* { ...a, ...b } of two objects read as texts: b's properties replace a's
SpreadSecondIgnored(a, b) == a
Spread(a, b) == {e \in a : \A g \in b : g.path[1] # e.path[1]} \cup b

\* { [key]: sub }
Nested(key, sub) == {[path |-> <<key>> \o e.path, value |-> e.value] : e \in sub}

\* what a check returns: success, and the results object (GoPlus properties)
CheckReturns ==
  LET Obj(fs) == {[path |-> <<f[1]>>, value |-> Str(f[2])] : f \in fs}
      flagged == Obj({<<"is_open_source", "0">>, <<"approval_abuse", "0">>})
  IN [success : {TRUE},
      results : {Obj({}), Obj({<<"is_open_source", "1">>, <<"buy_tax", "5">>}), flagged}]
       \cup [success : {FALSE}, results : {flagged}]

\* the candidates handed to trading: none when the audit did not pass.
\* server.js runAudit (238-257): the token, auditResults and a timestamp go to
\* runTrade.  Audit.js runGoPlusAudit (87-110) with GoPlusAudit.main (228-249):
\* success is the success property of what maliciousCheck returned, the token gets
\* auditResults and is sent as the data of a 'trade' message.
RunAudit(h, token, sec, rug) ==
  IF h = "server"
    THEN IF ~sec.success \/ ~rug.success THEN <<>>
         ELSE <<Spread(Spread(token,
                              Nested("auditResults", Spread(sec.results, rug.results))),
                       {[path |-> <<"timestamp">>, value |-> Str("toISOString")]})>>
    ELSE LET maliciousResults ==
               IF rug.success
                 THEN Spread(rug.results, {[path |-> <<"success">>, value |-> True]})
                 ELSE rug.results
             data == Spread(sec.results, maliciousResults)
         IN IF ~sec.success \/ ~rug.success THEN <<>>
            ELSE <<{[path |-> <<"action">>, value |-> Str("trade")]}
                     \cup Nested("data", Spread(token, Nested("auditResults", data)))>>

NoLog == [token0 |-> Undefined, token1 |-> Undefined, newToken |-> Undefined,
          baseToken |-> Undefined]

InitPairListener ==
  /\ known \in SUBSET Addresses
  /\ feed \in [kind : ListenerKinds, chainId : ChainIds, totalSent : {0}, logs : {0},
               sent : {<<>>}, last : {NoLog}, audited : {<<>>},
               handler : {"server", "Audit"}, returned : {<<>>}, handed : {<<>>}]

\* processEventLog for a creation event of token0 and token1
ProcessEventLog(token0, token1) ==
  /\ feed.logs < MaxLogs
  /\ LET r == FindNewToken(token0, token1, known)
         seen == [token0 |-> token0, token1 |-> token1, newToken |-> r.newToken,
                  baseToken |-> r.baseToken]
         data == DataOf(feed.kind, feed.chainId, r)
     IN feed' =
          IF Falsy(r.newToken) /\ Falsy(r.baseToken)
            THEN [feed EXCEPT !.logs = @ + 1, !.last = seen]
            ELSE [feed EXCEPT !.logs = @ + 1, !.last = seen,
                              !.sent = Append(@, MessageOf(feed.kind, data)),
                              !.totalSent = @ + 1]
  /\ UNCHANGED known
  /\ UNCHANGED <<limiterVars, serverVars, tradeVars, auditVars, scan, app>>

\* the server's message handler (or the Audit queue) takes the next message the
\* listener sent and runs the audit on what deserializeData made of it; the checks
\* return sec and rug, and on a pass the candidate is handed to trading
ServerReceives(sec, rug) ==
  /\ Len(feed.audited) < Len(feed.sent)
  /\ LET token == feed.sent[Len(feed.audited) + 1]
         out == RunAudit(feed.handler, token, sec, rug)
     IN feed' = [feed EXCEPT !.audited = Append(@, AuditArgs(token)),
                             !.returned = Append(@, [sec |-> sec, rug |-> rug]),
                             !.handed = Append(@, out)]
  /\ UNCHANGED known
  /\ UNCHANGED <<limiterVars, serverVars, tradeVars, auditVars, scan, app>>

NextFeed ==
  \/ \E token0, token1 \in Addresses : ProcessEventLog(token0, token1)
  \/ \E sec, rug \in CheckReturns : ServerReceives(sec, rug)

InitFeed == InitLimiter /\ IdleServer /\ IdleTrade /\ IdleAudit /\ InitPairListener /\ IdleScan /\ IdleApp

SpecFeed == InitFeed /\ [][NextFeed]_vars


----------------------------------------------------------------------------
(***************************************************************************)
(* The two GoPlus checks on the fields of a response:                      *)
(* src/src/audit/index.js lines 143-240 (tokenSecurity) and 75-121         *)
(* (rugpullDetection).                                                     *)
(*                                                                         *)
(* The data of a response is a function from property names to the strings *)
(* the API gives, "absent" for a property the response does not have.      *)
(***************************************************************************)
Absent == "absent"
ZeroAddress == "0x0000000000000000000000000000000000000000"
ActiveOwner == "0x00000000000000000000000000000000000000a1"

\* the properties of the token data that tokenSecurity reads, by the array of checks
\* that reads them
Read ==
  [critical |-> {"is_honeypot", "honeypot_with_same_creator", "is_blacklisted",
                 "selfdestruct", "external_call", "cannot_buy", "cannot_sell_all",
                 "transfer_pausable", "trading_cooldown"},
   owner |-> {"hidden_owner", "can_take_back_ownership"},
   share |-> {"owner_percent", "creator_percent"},
   tax |-> {"buy_tax", "sell_tax"},
   slippage |-> {"slippage_modifiable", "personal_slippage_modifiable"},
   additional |-> {"is_mintable", "anti_whale_modifiable"},
   contract |-> {"is_proxy", "is_open_source"},
   liquidity |-> {"lp_holder_count", "lp_total_supply"}]

TokenFields ==
  UNION {Read[k] : k \in DOMAIN Read} \cup {"is_in_dex", "owner_address"}

RugFlags ==
  {"privilege_withdraw", "withdraw_missing", "blacklist", "selfdestruct", "is_proxy",
   "approval_abuse"}
RugFields == RugFlags \cup {"is_open_source", "owner_type", "owner_address"}

\* the strings a property takes in the responses considered
ValuesOf(f) ==
  IF f \in Read.share THEN {Absent, "", "0", "10", "10.1", "n/a"}
  ELSE IF f \in Read.tax
    THEN {Absent, "", "10.1", "n/a"} \cup {ToString(n) : n \in 0..TaxRange}
  ELSE IF f \in Read.liquidity THEN {Absent, "0", "3", "n/a"}
  ELSE IF f = "owner_address" THEN {Absent, "", ZeroAddress, ActiveOwner, "0xa1"}
  ELSE IF f = "owner_type" THEN {Absent, "contract", "eoa", "blackhole"}
  ELSE {Absent, "0", "1"}

\* parseFloat(v) and parseInt(v) of a property, in tenths; -1 stands for NaN, for
\* which `> 10`, `<= 0.2` and `=== 0` are all false
ParseFloat(v) ==
  CASE v \in {Absent, "", "n/a"} -> -1
    [] v = "10.1" -> 101
    [] OTHER -> 10 * (CHOOSE n \in 0..TaxRange : ToString(n) = v)

\* parseFloat(v || 0) and parseInt(v || 0): a missing or empty property counts as 0
NumberOf(v) == IF v \in {Absent, ""} THEN 0 ELSE ParseFloat(v)

\* data that raises no flag
CleanOf(fields) ==
  [f \in fields |->
     IF f \in {"is_open_source", "is_in_dex"} THEN "1"
     ELSE IF f \in Read.liquidity THEN "3"
     ELSE IF f = "owner_address" THEN ZeroAddress
     ELSE IF f = "owner_type" THEN "blackhole"
     ELSE "0"]

\* the data considered: clean data, or the data of an object without properties,
\* with up to two properties changed
DataOver(fields) ==
  LET changes == UNION {{<<f, v>> : v \in ValuesOf(f)} : f \in fields}
  IN {[b EXCEPT ![p[1]] = p[2], ![q[1]] = q[2]] :
        b \in {CleanOf(fields), [f \in fields |-> Absent]},
        p \in changes, q \in changes}

\* tokenSecurity with the owner-share test left out
TokenSecurityChecksNoShare(td) ==
  \/ \E f \in Read.critical \cup Read.owner \cup Read.slippage \cup Read.additional :
       td[f] = "1"
  \/ \E f \in Read.tax : NumberOf(td[f]) > 100
  \/ td["is_proxy"] = "1" \/ td["is_open_source"] = "0"
  \/ td["is_in_dex"] = "0"
  \/ \E f \in Read.liquidity : NumberOf(td[f]) = 0
  \/ td["owner_address"] \in {ActiveOwner}

\* lines 170-235: some check of the seven arrays is truthy
TokenSecurityChecks(td) ==
  LET criticalChecks == \E f \in Read.critical : td[f] = "1"
      ownerChecks ==
        \/ \E f \in Read.owner : td[f] = "1"
        \/ \E f \in Read.share : NumberOf(td[f]) > 100
      taxSlippageChecks ==
        \/ \E f \in Read.tax : NumberOf(td[f]) > 100
        \/ \E f \in Read.slippage : td[f] = "1"
      additionalChecks == \E f \in Read.additional : td[f] = "1"
      contractChecks == td["is_proxy"] = "1" \/ td["is_open_source"] = "0"
      liquidityChecks ==
        \/ td["is_in_dex"] = "0"
        \/ NumberOf(td["lp_holder_count"]) = 0
        \/ NumberOf(td["lp_total_supply"]) = 0
      ownerAddressChecks ==
        /\ td["owner_address"] \notin {Absent, ""}
        /\ td["owner_address"] # ZeroAddress
        /\ Len(td["owner_address"]) = 42
  IN \/ criticalChecks \/ ownerChecks \/ taxSlippageChecks \/ additionalChecks
     \/ contractChecks \/ liquidityChecks \/ ownerAddressChecks

\* tokenSecurity, lines 143-240; response.result is missing ("none"), {} ("empty"),
\* an object without the key address.toLowerCase() ("other") or one with it
TokenSecurityOf(code, shape, td) ==
  IF code \notin {"SUCCESS", "PENDING_SYNC"} THEN "fail"
  ELSE IF shape \in {"none", "empty"} THEN "fail"
  ELSE IF shape = "other" THEN "fail"
  ELSE IF TokenSecurityChecks(td) THEN "fail"
  ELSE "pass"

\* GoPlusAudit.securityCheck, lines 144-215, on what fetchSecurityData returned:
\* false ("none") or the first value of response.result
SecurityCheck(shape, data) ==
  LET tradingSecurityChecks == {"cannot_buy", "cannot_sell_all"}
      isTradingSecure == \A check \in tradingSecurityChecks : data[check] = "0"
      buyTax == ParseFloat(data["buy_tax"])
      sellTax == ParseFloat(data["sell_tax"])
  IN IF shape = "none" THEN "fail"
     ELSE IF data["is_open_source"] # "1" THEN "fail"
     ELSE IF ~isTradingSecure THEN "fail"
     ELSE IF data["buy_tax"] = "" \/ data["sell_tax"] = "" THEN "fail"
     ELSE IF buyTax # -1 /\ sellTax # -1 /\ buyTax <= MAX_TAX /\ sellTax <= MAX_TAX
       THEN "pass"
     ELSE "fail"

\* rugpullDetection with the owner tests left out
RugpullChecksNoOwner(r) ==
  (\E f \in RugFlags : r[f] = "1") \/ r["is_open_source"] = "0"

\* lines 91-116: some check of securityChecks or ownerChecks, or openSourceCheck
RugpullChecks(r) ==
  LET securityChecks == \E f \in RugFlags : r[f] = "1"
      ownerChecks ==
        \/ r["owner_type"] = "contract" /\ r["owner_address"] # ZeroAddress
        \/ r["owner_type"] = "eoa"
      openSourceCheck == r["is_open_source"] = "0"
  IN securityChecks \/ ownerChecks \/ openSourceCheck

\* rugpullDetection, lines 75-125; response.result is missing ("none") or an object:
\* without a result line 92 throws and the catch returns the failure
RugpullOf(code, shape, r) ==
  IF code \notin {"SUCCESS", "PENDING_SYNC"} THEN "fail"
  ELSE IF shape = "none" THEN "fail"
  ELSE IF RugpullChecks(r) THEN "fail"
  ELSE "pass"

\* the responses makeGoPlusCall may return to tokenSecurity
TokenScans ==
  {[check |-> "tokenSecurity", code |-> c, shape |-> "token", data |-> d, calls |-> 1, out |-> "none"] :
     c \in Codes, d \in DataOver(TokenFields)}
  \cup
  {[check |-> "tokenSecurity", code |-> c, shape |-> sh, data |-> CleanOf(TokenFields),
    calls |-> 1, out |-> "none"] : c \in Codes, sh \in {"none", "empty", "other"}}

\* the responses makeGoPlusCall may return to rugpullDetection
RugScans ==
  {[check |-> "rugpullDetection", code |-> c, shape |-> sh, data |-> d, calls |-> 1, out |-> "none"] :
     c \in Codes, sh \in {"none", "object"}, d \in DataOver(RugFields)}

\* what fetchSecurityData may return to GoPlusAudit.securityCheck
SecurityScans ==
  {[check |-> "securityCheck", code |-> "SUCCESS", shape |-> sh, data |-> d,
    calls |-> 1, out |-> "none"] : sh \in {"none", "token"}, d \in DataOver(TokenFields)}

\* the API answered the check's call number scan.calls with the response: a turn of
\* makeGoPlusCall's loop, which makes the next call (answered alike) or returns the
\* response to the check, which runs on it
Evaluate ==
  /\ scan.out = "none"
  /\ LET resp == [code |-> scan.code, data |-> "none", retry_after |-> 0]
         step == MakeGoPlusCall(scan.calls - 1, resp)
     IN scan' =
          IF scan.check = "securityCheck"
            THEN [scan EXCEPT !.out = SecurityCheck(scan.shape, scan.data)]
          ELSE IF step.kind = "retry" THEN [scan EXCEPT !.calls = @ + 1]
          ELSE [scan EXCEPT !.out =
                  IF scan.check = "tokenSecurity"
                    THEN TokenSecurityOf(scan.code, scan.shape, scan.data)
                    ELSE RugpullOf(scan.code, scan.shape, scan.data)]
  /\ UNCHANGED <<limiterVars, serverVars, tradeVars, auditVars, feedVars, app>>

InitChecks ==
  /\ InitLimiter /\ IdleServer /\ IdleTrade /\ IdleAudit /\ IdleFeed /\ IdleApp
  /\ (scan \in TokenScans \/ scan \in RugScans \/ scan \in SecurityScans)

SpecChecks == InitChecks /\ [][Evaluate]_vars

----------------------------------------------------------------------------
(***************************************************************************)
(* src/src/index.js, main(), with createTradingInstances and               *)
(* getTradingInstance of src/unnamed/part_007.  main is at one of its      *)
(* awaits:                                                                 *)
(*   "create"   initialize() of the trading instance of step `at`          *)
(*   "server"   server.startServer()                                       *)
(*   "client"   the open event of the websocket client                     *)
(* or it is "running" (main returned, the process serves messages) or      *)
(* "exited" (process.exit(1) in the catch block).                          *)
(***************************************************************************)
Number(n) == [t |-> "number", id |-> n, form |-> "digits"]

\* data/uniswap.json: the entries considered name their chain as its id says
ChainNames == [i \in {1, 8453, 42161} |->
                 IF i = 1 THEN "Ethereum" ELSE IF i = 8453 THEN "Base" ELSE "Arbitrum"]
ConfigEntries ==
  {[dex |-> d, chain |-> ChainNames[i], chain_id |-> Digits(i), v2 |-> f[1], v3 |-> f[2]] :
     d \in {"uniswap", "sushiswap"}, i \in DOMAIN ChainNames,
     f \in {<<TRUE, FALSE>>, <<FALSE, TRUE>>, <<TRUE, TRUE>>}}
Configs == UNION {[1..n -> ConfigEntries] : n \in 1..MaxChains}

\* chainIdToString, getAlchemySettings.js lines 33-43; null reads "null" in the
\* template literal of the instance name
ChainIdToString(chainId) ==
  IF chainId = Digits(8453) THEN "Base"
  ELSE IF chainId = Digits(1) THEN "Ethereum"
  ELSE "null"

\* String(chainId)
StringOf(v) == IF v = Undefined THEN Str("undefined") ELSE Digits(v.id)

\* the initialize() calls createTradingInstances awaits, in order
RECURSIVE CreateSteps(_, _)
CreateSteps(config, i) ==
  IF i > Len(config) THEN <<>>
  ELSE (IF config[i].v2 THEN <<[entry |-> i, version |-> "V2"]>> ELSE <<>>)
         \o (IF config[i].v3 THEN <<[entry |-> i, version |-> "V3"]>> ELSE <<>>)
         \o CreateSteps(config, i + 1)

\* lines 598-623: instances[`${dex}${chain}V2`] = v2Instance; Object.entries keeps
\* the order in which the names were first assigned
Assigned(instances, dexConfig, version) ==
  LET inst == [name |-> <<dexConfig.dex, dexConfig.chain, version>>,
               chainId |-> dexConfig.chain_id, version |-> version]
  IN IF \E k \in 1..Len(instances) : instances[k].name = inst.name
       THEN [k \in 1..Len(instances) |->
               IF instances[k].name = inst.name THEN inst ELSE instances[k]]
       ELSE Append(instances, inst)

Null == [name |-> <<>>, chainId |-> Undefined, version |-> "null"]

\* name.includes(version) that is always true
IncludesAnything(name, version) == TRUE

\* name.includes(version), for names made of a dex and a chain that contain
\* neither 'V2' nor 'V3'
Includes(name, version) == \E k \in 1..Len(name) : name[k] = version

\* getTradingInstance, lines 634-662
GetTradingInstance(instances, token) ==
  LET chain == ChainIdToString(token.chainId)
      version == IF Falsy(token.v3) THEN "V2" ELSE "V3"
      instanceName == <<"uniswap", chain, version>>
      named == {k \in 1..Len(instances) : instances[k].name = instanceName}
      found == {k \in 1..Len(instances) :
                  /\ \/ instances[k].chainId = token.chainId
                     \/ instances[k].chainId = StringOf(token.chainId)
                  /\ Includes(instances[k].name, version)}
  IN IF named # {} THEN instances[CHOOSE k \in named : TRUE]
     ELSE IF found # {} THEN instances[CHOOSE k \in found : \A j \in found : k <= j]
     ELSE Null

\* the candidates runTrade is given: chainId and v3 as a message may carry them
TradedTokens ==
  [chainId : {Digits(1), Digits(8453), Digits(42161), Number(1), Undefined},
   v3 : {True, False, Undefined}]

\* the pair listeners activateListeners constructs, lines 16-26
PairListeners(config) ==
  {[chainId |-> config[i].chain_id, kind |-> "V2TokenPairListener"] :
     i \in {j \in 1..Len(config) : config[j].v2}}
  \cup {[chainId |-> config[i].chain_id, kind |-> "V3TokenPairListener"] :
          i \in {j \in 1..Len(config) : config[j].v3}}

InitMain ==
  app \in [pc : {"create"}, config : Configs, at : {1}, instances : {<<>>},
           listening : {{}}, failed : {"none"}, trades : {<<>>}]

\* the catch block of main, lines 79-96, and process.exit(1)
Caught(a, what) == [a EXCEPT !.pc = "exited", !.failed = what]

\* initialize() of the instance being created settled
InitializeSettles(ok) ==
  /\ app.pc = "create"
  /\ LET steps == CreateSteps(app.config, 1)
         step == steps[app.at]
     IN app' =
          IF ~ok THEN Caught(app, "initialize")
          ELSE [app EXCEPT
                  !.instances = Assigned(@, app.config[step.entry], step.version),
                  !.at = @ + 1,
                  !.pc = IF app.at = Len(steps) THEN "server" ELSE "create"]
  /\ UNCHANGED <<limiterVars, serverVars, tradeVars, auditVars, feedVars, scan>>

\* startServer() settled
ServerStarts(ok) ==
  /\ app.pc = "server"
  /\ app' = IF ok THEN [app EXCEPT !.pc = "client"] ELSE Caught(app, "server")
  /\ UNCHANGED <<limiterVars, serverVars, tradeVars, auditVars, feedVars, scan>>

\* the client opened, or failed to within the 10 s: activateListeners constructs
\* the pair listeners, of which those in `activated` subscribe (activateListener
\* catches what the subscription throws), and main returns
ClientOpens(ok, activated) ==
  /\ app.pc = "client"
  /\ activated \subseteq PairListeners(app.config)
  /\ app' = IF ok THEN [app EXCEPT !.pc = "running", !.listening = activated]
            ELSE Caught(app, "client")
  /\ UNCHANGED <<limiterVars, serverVars, tradeVars, auditVars, feedVars, scan>>

\* server.js runTrade, lines 263-277, for a candidate that passed the audit: the
\* instance to buy with, or the return without a buy
RunTrade(token) ==
  /\ app.pc = "running"
  /\ Len(app.trades) < MaxEvents
  /\ LET tradingInstance == GetTradingInstance(app.instances, token)
     IN app' = [app EXCEPT !.trades =
                  Append(@, [token |-> token, instance |-> tradingInstance,
                             out |-> IF tradingInstance = Null THEN "returned"
                                     ELSE "buyToken"])]
  /\ UNCHANGED <<limiterVars, serverVars, tradeVars, auditVars, feedVars, scan>>

NextMain ==
  \/ \E ok \in BOOLEAN : InitializeSettles(ok)
  \/ \E ok \in BOOLEAN : ServerStarts(ok)
  \/ \E ok \in BOOLEAN, activated \in SUBSET PairListeners(app.config) :
       ClientOpens(ok, activated)
  \/ \E token \in TradedTokens : RunTrade(token)

InitApp == InitLimiter /\ IdleServer /\ IdleTrade /\ IdleAudit /\ IdleFeed /\ IdleScan /\ InitMain

SpecMain == InitApp /\ [][NextMain]_vars


----------------------------------------------------------------------------
(***************************************************************************)
(* Properties of the rate limiter                                          *)
(***************************************************************************)

\* C4: driven through executeWithRateLimit, with handleRateLimit() at any point and
\* without reset(), the limiter never has more than maxCalls started calls that are
\* less than windowMs old, and after pruning calls.length <= maxCalls.
C4_WindowBudget ==
  /\ Len(hist.recorded) <= MaxCalls
  /\ Len(InWindow(rl.calls, now)) <= MaxCalls

\* the window is full of started calls and a loop sleeps until its oldest call leaves
C4_Witness ==
  /\ Len(hist.recorded) = MaxCalls
  /\ Len(hist.started) = MaxCalls
  /\ ~rl.isThrottled
  /\ Len(rl.queue) > 0
  /\ \E l \in LoopIds : loops[l].pc = "wait"

\* C5: canMakeCall() is false whenever at least maxCalls recorded calls are less than
\* windowMs old, and after it refused for that reason it does not return true while
\* the call that was the oldest in the window is still in the window, unless reset()
\* was called.
C5_WindowGate ==
  /\ Len(hist.recorded) >= MaxCalls => ~CanMakeCallValue(rl, now)
  /\ hist.blockOldest >= 0 => hist.lastCan # "yes"

\* canMakeCall() has just refused because the window is full, with no throttle set
C5_Witness ==
  /\ hist.lastCan = "no"
  /\ hist.blockOldest >= 0
  /\ Len(hist.recorded) >= MaxCalls
  /\ ~rl.isThrottled

\* C6: after handleRateLimit(n) at time t, canMakeCall() is false at every time before
\* t + n seconds, whatever recordCall() or handleRateLimit() calls came later (only
\* reset() lifts the deadline).
C6_ThrottleHolds ==
  now < hist.deadline => ~CanMakeCallValue(rl, now)

\* C7: at most one processQueue loop is alive, at most one API call is in flight, and
\* the calls are started in the order in which they were enqueued.
C7_SingleDrainerFifo ==
  /\ Cardinality(LiveLoops) <= 1
  /\ Cardinality(InFlight) <= 1
  /\ \A i, j \in 1..Len(hist.started) : i < j => hist.started[i] < hist.started[j]

----------------------------------------------------------------------------
(***************************************************************************)
(* Properties of the message handler                                       *)
(***************************************************************************)
\* the positions, listeners and subscriptions that invocation c stored
StoredBy(c) ==
  {t \in Tokens : positions[t].by = c \/ listeners[t].by = c}
    \cup {s.token : s \in {x \in subs : x.by = c}}

\* C1: buyToken is invoked for a message only if tokenSecurity and rugpullDetection
\* both returned success for that message; when either returned success: false,
\* buyToken is not invoked for the message and it stores no position, listener or
\* subscription.
C1_BuyOnlyAfterBothPass ==
  \A m \in Jobs :
    /\ buy[m].pc # "none" => msg[m].sec = "pass" /\ msg[m].rug = "pass"
    /\ msg[m].sec = "fail" \/ msg[m].rug = "fail" =>
         /\ buy[m].pc = "none"
         /\ msg[m].out = "rejected"
         /\ StoredBy(m) = {}

\* one message was rejected by rugpullDetection after tokenSecurity passed, and
\* another message for the same token passed both and bought it
C1_Witness ==
  \E m1, m2 \in Jobs :
    /\ msg[m1].sec = "pass" /\ msg[m1].rug = "fail" /\ msg[m1].pc = "done"
    /\ msg[m2].token = msg[m1].token
    /\ buy[m2].result = "success"
    /\ msg[m2].out = "bought"

\* C2: every message handler invokes tokenSecurity first and rugpullDetection second,
\* and when tokenSecurity returned failure rugpullDetection is not invoked for the
\* message.
C2_FailFast ==
  \A m \in Jobs :
    /\ Len(msg[m].order) >= 1 => msg[m].order[1] = "sec"
    /\ Len(msg[m].order) >= 2 => msg[m].order[2] = "rug" /\ msg[m].sec = "pass"
    /\ msg[m].sec = "fail" => msg[m].order = <<"sec">>

\* C3: when all maxRetries calls of a check threw or returned the rate-limited code,
\* the check returns success: false, the message is rejected and nothing is bought.
C3_FailClosed ==
  \A m \in Jobs :
    /\ "sec" \in msg[m].exhausted => msg[m].sec = "fail"
    /\ "rug" \in msg[m].exhausted => msg[m].rug = "fail"
    /\ msg[m].exhausted # {} =>
         msg[m].pc = "done" /\ msg[m].out = "rejected" /\ buy[m].pc = "none"

\* the server's handler rejected a message because rugpullDetection ran out of
\* retries after tokenSecurity had passed
C3_Witness ==
  \E m \in Jobs :
    /\ ctl = "server"
    /\ msg[m].exhausted = {"rug"}
    /\ msg[m].sec = "pass"
    /\ msg[m].out = "rejected"

\* C8: no two messages that name the same token are audited: neither at the same
\* time nor one after the other reached its verdict.
C8_AuditIdempotent ==
  \A m1, m2 \in Jobs :
    m1 # m2 /\ msg[m1].token # 0 /\ msg[m1].token = msg[m2].token =>
      msg[m1].order = <<>> \/ msg[m2].order = <<>>

----------------------------------------------------------------------------
(***************************************************************************)
(* Properties of the audit queue and of the trading engines                *)
(***************************************************************************)

\* C9: a candidate leaves the audit queue at most once and only with a pass or fail
\* verdict, and it is run through the checks at most once.
C9_QueueDiscipline ==
  \A c \in Cands :
    /\ cand[c].removed <= 1
    /\ cand[c].runs <= 1
    /\ cand[c].removed = 1 => cand[c].state \in {"pass", "fail"}

\* C10: a buyToken that returned a failure or threw has stored no position, no
\* listener and no subscription.
C10_NoPartialState ==
  \A c \in Jobs :
    buy[c].result \in {"failed", "threw"} => StoredBy(c) = {}


----------------------------------------------------------------------------
\* C11: for an open position of the part_007 engine, at most one sell swap is
\* submitted, whatever the interleaving of the swap listeners' invocations: the
\* sell swaps sent since the token's position was stored are never more than one.
C11_ExactlyOnceExit ==
  eng = "part_007" => \A t \in Tokens : sold[t] <= 1

\* C12: when a sell swap was sent, the step that completes the sell leaves neither
\* a position nor a listener for the token in the engine's maps, and a swap event
\* that arrives after a sell of the position triggers no further sell.
C12_SoldMeansGone ==
  [][\A k \in Events :
       /\ (cb[k].pc = "swap" /\ cb'[k].swaps > cb[k].swaps)
            => /\ positions'[cb[k].token].by = 0
               /\ listeners'[cb[k].token].by = 0
       /\ (cb[k].pc = "price" /\ cb'[k].pc = "prep")
            => ~(cb[k].soldBefore > 0 /\ sold[cb[k].token] >= cb[k].soldBefore)]_vars

\* the registered swap listeners of token t
SubsOf(t) == {x \in subs : x.token = t}

\* C13: in the part_007 engine a token has at most one registered swap listener at
\* any time, and only while it has an open position; a second buyToken for the
\* token adds no second one.
C13_OneSubscriptionPerPosition ==
  eng = "part_007" =>
    \A t \in Tokens :
      /\ Cardinality(SubsOf(t)) <= 1
      /\ SubsOf(t) # {} => positions[t].by # 0

\* C14: in the step in which a buyToken returns success, on every engine, the
\* positions map holds an entry for its token and the listeners map holds a
\* listener for it.
C14_SuccessStoresBoth ==
  [][\A c \in Jobs :
       (buy[c].result # "success" /\ buy'[c].result = "success")
         => /\ positions'[buy'[c].token].by # 0
            /\ listeners'[buy'[c].token].by # 0]_vars

\* the listener invocation k read its price in this step while the position that
\* registered its listener was open
Evaluates(k) ==
  /\ cb[k].pc = "price" /\ cb'[k].pc # "price"
  /\ positions[cb[k].token].by # 0
  /\ positions[cb[k].token].by = cb[k].by

\* what the statement of C15 asks of such a step for a position bought at P
SellsAsStated(k, P) ==
  LET price == cb'[k].price
      why == cb'[k].reasons
  IN /\ "TARGET_HIT" \in why <=> price >= 2 * P
     /\ "STOP_LOSS" \in why <=> 2 * price <= P
     /\ Cardinality(why) <= 1

----------------------------------------------------------------------------
(***************************************************************************)
(* Properties of the classification and of the pair listeners              *)
(***************************************************************************)

\* address a is one of the known addresses, whatever the case it is written in
MatchesKnown(a) == \E k \in known : k.id = a.id

\* C16: for the tokens of the latest creation event and the known set, findNewToken
\* returned a pair of addresses iff exactly one of the two addresses matches a known
\* address case-insensitively, with baseToken the matching one and newToken the
\* other; otherwise it returned { newToken: false, baseToken: false }.
C16_ClassifyExactlyOne ==
  feed.logs > 0 =>
    LET l == feed.last
        m0 == MatchesKnown(l.token0)
        m1 == MatchesKnown(l.token1)
    IN IF m0 # m1
         THEN /\ l.baseToken = IF m0 THEN l.token0 ELSE l.token1
              /\ l.newToken = IF m0 THEN l.token1 ELSE l.token0
         ELSE l.newToken = False /\ l.baseToken = False

\* a known address written in lower case was matched by a token written with the
\* capitals of its checksum, and the other token is the new one
C16_Witness ==
  /\ feed.logs > 0
  /\ feed.last.token1.form = "checksum"
  /\ ToLowerCase(feed.last.token1) \in known
  /\ feed.last.token1 \notin known
  /\ feed.last.baseToken = feed.last.token1
  /\ feed.last.newToken = feed.last.token0
  /\ feed.last.token0.id # feed.last.token1.id

\* C17: a creation event whose classification failed publishes nothing and leaves
\* totalSent as it was; one whose classification succeeded publishes exactly one
\* message, with action 'audit' and with the listener's chain id, the new and base
\* token addresses and the pool address in its data, and adds one to totalSent.
C17_PublishOnClassified ==
  [][feed'.logs = feed.logs + 1 =>
       LET l == feed'.last
       IN IF l.newToken = False /\ l.baseToken = False
            THEN feed'.sent = feed.sent /\ feed'.totalSent = feed.totalSent
            ELSE /\ Len(feed'.sent) = Len(feed.sent) + 1
                 /\ SubSeq(feed'.sent, 1, Len(feed.sent)) = feed.sent
                 /\ feed'.totalSent = feed.totalSent + 1
                 /\ LET text == feed'.sent[Len(feed'.sent)]
                    IN /\ Field(text, <<"action">>) = Str("audit")
                       /\ Field(text, <<"data", "chainId">>) = feed.chainId
                       /\ Field(text, <<"data", "newTokenAddress">>) = l.newToken
                       /\ Field(text, <<"data", "baseTokenAddress">>) = l.baseToken
                       /\ Field(text, <<"data", "pairAddress">>) = PoolAddress]_vars

\* C18: for every message with action 'audit' that a listener published and the
\* server's handler took, the audit checks were invoked with the chain id and the
\* new token address carried in the message's data.
C18_AuditedAsPublished ==
  \A i \in 1..Len(feed.audited) :
    Field(feed.sent[i], <<"action">>) = Str("audit") =>
      /\ feed.audited[i].chainId = Field(feed.sent[i], <<"data", "chainId">>)
      /\ feed.audited[i].address = Field(feed.sent[i], <<"data", "newTokenAddress">>)

----------------------------------------------------------------------------
(***************************************************************************)
(* Properties of the two GoPlus checks                                     *)
(***************************************************************************)

\* the risk condition that the statement of C19 attaches to property f holds for
\* its value v: a flag that is set, a share or tax above 10, a contract that is not
\* open source or not in a DEX, no LP holders or LP supply, an owner address of
\* 42 characters that is not the zero address
RiskHolds(f, v) ==
  IF f \in Read.share \cup Read.tax THEN NumberOf(v) > 100
  ELSE IF f \in Read.liquidity THEN NumberOf(v) = 0
  ELSE IF f \in {"is_open_source", "is_in_dex"} THEN v = "0"
  ELSE IF f = "owner_address" THEN v = ActiveOwner
  ELSE v = "1"

RisksOf(td) == {f \in TokenFields : RiskHolds(f, td[f])}

RugRisksOf(r) ==
  {f \in RugFlags : r[f] = "1"}
    \cup (IF r["owner_type"] = "contract"
             /\ r["owner_address"] \notin {Absent, "", ZeroAddress}
            THEN {"owner is a contract"} ELSE {})
    \cup (IF r["owner_type"] = "eoa" THEN {"owner is an EOA"} ELSE {})
    \cup (IF r["is_open_source"] = "0" THEN {"not open source"} ELSE {})

\* C20: rugpullDetection returns success: false whenever the response's result has
\* privileged withdraw, a missing withdraw function, a blacklist, selfdestruct, a
\* proxy, approval abuse, a contract owner with a non-zero address, an EOA owner or
\* is not open source; it returns success: true only when none of them holds.
C20_RugpullVerdict ==
  (scan.check = "rugpullDetection" /\ scan.out # "none") =>
    /\ (scan.shape = "object" /\ RugRisksOf(scan.data) # {}) => scan.out = "fail"
    /\ scan.out = "pass" => RugRisksOf(scan.data) = {}

\* a response whose only finding is an owner that is an EOA was judged a failure
C20_Witness ==
  /\ scan.check = "rugpullDetection"
  /\ scan.code = "SUCCESS" /\ scan.shape = "object"
  /\ scan.data = [CleanOf(RugFields) EXCEPT !["owner_type"] = "eoa"]
  /\ scan.out = "fail"

\* C21: with every other flag clear, a token-security check passes when buy_tax and
\* sell_tax are both integers of at most 10 and fails when either is above 10; this
\* is the statement for tokenSecurity of audit/index.js
IntegerTax(v) == \E n \in 0..TaxRange : v = ToString(n)
ClearButTax(sc) ==
  /\ sc.shape = "token" /\ sc.code = "SUCCESS"
  /\ \A f \in TokenFields \ Read.tax : sc.data[f] = CleanOf(TokenFields)[f]
  /\ \A f \in Read.tax : IntegerTax(sc.data[f])
TaxVerdict(sc) ==
  IF \A f \in Read.tax : ParseFloat(sc.data[f]) <= 100 THEN "pass" ELSE "fail"
C21_TaxBoundaryTokenSecurity ==
  (scan.check = "tokenSecurity" /\ ClearButTax(scan) /\ scan.out # "none")
    => scan.out = TaxVerdict(scan)
C21_WitnessTokenSecurity ==
  /\ scan.check = "tokenSecurity" /\ ClearButTax(scan) /\ scan.out = "pass"
  /\ scan.data["buy_tax"] = "10" /\ scan.data["sell_tax"] = "5"

\* C21: the same statement for every token-security check of the program,
\* GoPlusAudit.securityCheck included
C21_TaxBoundary ==
  (scan.check \in {"tokenSecurity", "securityCheck"} /\ ClearButTax(scan)
     /\ scan.out # "none")
    => scan.out = TaxVerdict(scan)

\* C22: when both checks succeed exactly one candidate is handed to trading (none
\* otherwise); it carries every property of the original candidate, and its
\* auditResults is the merge of the results of the two checks, the second check's
\* value standing where both have the property
PropertyOf(text, key) ==
  {[path |-> Tail(e.path), value |-> e.value] : e \in {g \in text : g.path[1] = key}}
C22_HandedWithMergedResults ==
  \A i \in 1..Len(feed.handed) :
    LET token == feed.sent[i]
        sec == feed.returned[i].sec
        rug == feed.returned[i].rug
    IN IF ~(sec.success /\ rug.success) THEN feed.handed[i] = <<>>
       ELSE /\ Len(feed.handed[i]) = 1
            /\ LET c == IF feed.handler = "server" THEN feed.handed[i][1]
                        ELSE PropertyOf(feed.handed[i][1], "data")
                   results == PropertyOf(c, "auditResults")
               IN /\ feed.handler = "Audit" =>
                       Field(feed.handed[i][1], <<"action">>) = Str("trade")
                  /\ token \subseteq c
                  /\ \A f \in {"is_open_source", "buy_tax", "approval_abuse"} :
                       Field(results, <<f>>) =
                         IF Field(rug.results, <<f>>) # Undefined
                           THEN Field(rug.results, <<f>>)
                           ELSE Field(sec.results, <<f>>)
C22_Witness ==
  /\ Len(feed.handed) = 2 /\ feed.handed[1] = <<>> /\ Len(feed.handed[2]) = 1
  /\ LET c == IF feed.handler = "server" THEN feed.handed[2][1]
              ELSE PropertyOf(feed.handed[2][1], "data")
     IN /\ Field(c, <<"auditResults", "is_open_source">>) = Str("0")
        /\ Field(c, <<"auditResults", "buy_tax">>) = Str("5")
        /\ Field(c, <<"newTokenAddress">>) # Undefined

\* C23: a response with the pending-sync code is retried, not evaluated: a check
\* whose calls are answered with the pending-sync code has no verdict, and so no
\* fail verdict, before it has made all its maxRetries calls
C23_PendingSyncRetried ==
  (scan.check \in {"tokenSecurity", "rugpullDetection"} /\ scan.code = "PENDING_SYNC"
     /\ scan.calls < MaxRetries)
    => scan.out # "fail"

\* C24: the limiter gates timing only.  A submitted function is invoked at most
\* once; its promise is pending until the invocation ends and then resolved when
\* the invocation returned and rejected when it threw; and as long as reset() has
\* not been called, a function not yet invoked is still in the queue with a drain
\* loop alive, so that it is invoked once
Invocations(q) == {i \in 1..Len(hist.started) : hist.started[i] = q}
Queued(q) == \E i \in 1..Len(rl.queue) : rl.queue[i] = q
PassesThrough(q) ==
  /\ Cardinality(Invocations(q)) <= 1
  /\ reqState[q] = "none" <=> q >= nextReq
  /\ reqState[q] \in {"none", "queued"} =>
       Invocations(q) = {} /\ hist.outcomes[q] = "none"
  /\ reqState[q] = "running" =>
       /\ Invocations(q) # {} /\ hist.outcomes[q] = "none"
       /\ \E l \in LoopIds : loops[l].pc = "call" /\ loops[l].req = q
  /\ reqState[q] = "resolved" => Invocations(q) # {} /\ hist.outcomes[q] = "ok"
  /\ reqState[q] = "rejected" => Invocations(q) # {} /\ hist.outcomes[q] = "error"
  /\ reqState[q] # "queued" => ~Queued(q)
C24_GatesTimingOnly ==
  \A q \in Requests :
    /\ PassesThrough(q)
    /\ (reqState[q] = "queued" /\ used.resets = 0) =>
         Queued(q) /\ rl.processing /\ LiveLoops # {}
C24_Witness ==
  /\ reqState[1] = "rejected" /\ reqState[2] = "resolved" /\ reqState[3] = "queued"
  /\ used.resets = 0 /\ Queued(3)

\* C24 as stated: every submitted function is invoked exactly once, so one that
\* was not invoked yet is always still queued with a drain loop alive
C24_InvokedExactlyOnce ==
  \A q \in Requests :
    /\ PassesThrough(q)
    /\ reqState[q] = "queued" => Queued(q) /\ rl.processing /\ LiveLoops # {}

\* C25: every failure of buyToken is reported as a returned result with
\* success: false; no invocation ends by throwing
C25_FailuresReturned ==
  \A c \in Jobs : buy[c].result # "threw"

\* C26: getTradingInstance returns null when no instance is of the candidate's
\* chain and version, runTrade then returns without a buy and the next candidate is
\* still resolved; an instance it returns is of the candidate's chain id and of the
\* version the candidate's v3 flag selects
OfCandidate(inst, token) ==
  /\ token.chainId # Undefined /\ inst.chainId.id = token.chainId.id
  /\ inst.version = IF token.v3 = True THEN "V3" ELSE "V2"
C27_PartialFailureIsolated ==
  LET failing == app.config[CreateSteps(app.config, 1)[app.at].entry]
  IN (/\ app.failed = "initialize"
      /\ \E j \in 1..Len(app.config) : app.config[j].chain_id # failing.chain_id)
       => app.pc # "exited"

\* C28: once stop() was called no audit is started any more, the callbacks that
\* were in their wait at that moment included
C28_NoWorkAfterStop ==
  [][audit.stopped =>
       /\ \A c \in Cands : cand'[c].runs = cand[c].runs
       /\ audit'.undefinedRuns = audit.undefinedRuns
       /\ Len(audit'.queue) >= Len(audit.queue)]_vars

\* C29: a message that cannot be deserialised is dropped: the handler ends at once,
\* no check is invoked and no call is enqueued for it, no buy is started for it,
\* and the messages after it are handled as usual
C29_MalformedDropped ==
  \A m \in Jobs :
    msg[m].kind = "malformed" =>
      /\ msg[m].pc = "done" /\ msg[m].out = "malformed"
      /\ msg[m].order = <<>> /\ msg[m].sec = "none" /\ msg[m].rug = "none"
      /\ msg[m].attempts = 0
      /\ buy[m] = NoBuy
C29_Witness ==
  /\ ctl = "server"
  /\ msg[1].kind = "malformed" /\ msg[1].out = "malformed"
  /\ msg[2].kind = "token" /\ msg[2].out = "bought"

\* C30: the receipt polling of buyToken ends within its attempt bound, and when it
\* ends with its last attempt without a revert, the position is recorded and
\* buyToken returns success (UniswapV2 of part_007 and UniswapV3 of uniswapV3.js)
C30_BoundedPollingSoftFailure ==
  [][\A c \in Jobs :
       /\ buy'[c].polls < PollLimit(eng)
       /\ (/\ eng \in {"part_007", "uniswapV3"}
           /\ buy[c].pc = "confirm" /\ buy[c].polls + 1 = PollLimit(eng)
           /\ buy'[c].pc # "confirm" /\ buy'[c].result # "failed")
            => /\ positions'[buy[c].token].by = c
               /\ buy'[c].result = "success"]_vars

\* C31: the entryPrice a buyToken stores in the position, and the thresholds of the
\* listener it registers, come from the price it read before it sent the swap:
\* the step that stores them reads no price
C31_PreSwapReference ==
  [][\A c \in Jobs :
       LET tok == buy[c].token
       IN (/\ tok \in Tokens
           /\ positions'[tok] # positions[tok] /\ positions'[tok].by = c)
            => /\ buy[c].pc = "confirm"
               /\ positions'[tok].entryPrice = buy[c].price
               /\ listeners'[tok] # listeners[tok] =>
                    /\ listeners'[tok].targetPrice = TargetOf(buy[c].price)
                    /\ listeners'[tok].stopLoss = StopLossOf(buy[c].price)]_vars

\* the throttle deadline in force: the one the last handleRateLimit set, until the
\* limiter cleared it
Throttled == rl.isThrottled /\ now < rl.throttleEndTime

C33_SuccessNeedsData ==
  scan.out = "pass" =>
    /\ scan.shape \in {"token", "object"}
    /\ \E f \in DOMAIN scan.data : scan.data[f] # Absent

\* C34: at every instant of every reachable state of the limiter, getWaitTime()
\* returns 0 exactly when canMakeCall() returns true
C34_WaitAgreesWithAdmission ==
  (GetWaitTime(rl, now) = 0) <=> CanMakeCallValue(rl, now)

\* C35: every promise of executeWithRateLimit settles in the end: when no
\* processQueue loop is left to run, no promise is pending, every submitted call
\* was started and has resolved or rejected, and the processing flag is down
C35_SettledAtRest ==
  LiveLoops = {} =>
    /\ \A q \in Requests : reqState[q] \in {"none", "resolved", "rejected"}
    /\ ~rl.processing

\* C36: the scheduler starts no audit without a job: runGoPlusAudit is never
\* called with the undefined that shift() gives on an empty queue
C36_NeverWithoutJob ==
  audit.undefinedRuns = 0

\* C37: a listener whose getPrice gave the error value calls executeSell for no
\* reason at all: only a price that was read can hit the target or the stop-loss
C37_FailedPriceSellsNothing ==
  [][\A k \in Events :
       (cb[k].pc = "price" /\ cb'[k].pc # "price" /\ cb'[k].price = 0)
         => cb'[k].reasons = {}]_vars

\* C38: in the part_007 engine every swap-event subscription that is registered is
\* the one the listeners map records for its token, so that stopAllListeners, which
\* walks the map, leaves no subscription active
C38_SubscriptionsRecorded ==
  eng = "part_007" => \A s \in subs : listeners[s.token].by = s.by

\* C39: the step in which a sell fails (a read before the sell swap rejected, or
\* sending the swap did) changes neither the positions, nor the listeners map, nor
\* the registered subscriptions
C39_FailedSellChangesNothing ==
  [][\A k \in Events :
       (/\ cb[k].pc \in {"prep", "swap"} /\ cb'[k] # cb[k]
        /\ cb'[k].pc # "swap" /\ cb'[k].swaps = cb[k].swaps)
         => positions' = positions /\ listeners' = listeners /\ subs' = subs]_vars

\* C40: makeGoPlusCall ends after at most maxRetries calls, whatever mix of
\* responses, rate-limited responses and errors the calls settle with: it never has
\* more than maxRetries calls behind it, it goes to sleep for a retry only when a
\* call is left, and it re-enters its loop only with retryCount < maxRetries, so
\* that it leaves through `return response` or `throw error` and never through
\* the end of the loop
C40_BoundedAttempts ==
  \A m \in Jobs :
    /\ msg[m].attempts <= MaxRetries
    /\ msg[m].pc = "call" => msg[m].attempts = msg[m].retry + 1
    /\ msg[m].pc = "sleep" => msg[m].attempts = msg[m].retry /\ msg[m].retry < MaxRetries

\* tokenSecurity's makeGoPlusCall made maxRetries calls, none of which gave a
\* usable response, and ended: the handler has its verdict
C40_Witness ==
  \E m \in Jobs :
    /\ msg[m].exhausted = {"sec"}
    /\ msg[m].sec = "fail"
    /\ msg[m].pc = "done"

====
